---- MODULE Spec2Model ----
(***************************************************************************)
(* Receipt extraction backend (Digitara-Backend): the extraction pipeline  *)
(* of ReceiptsService.extractReceiptData, the AiService retry loop around  *)
(* the model gateway, the response parser and data repair, the consistency *)
(* validator, the status classifier, and the record and image stores.      *)
(*                                                                         *)
(* Conventions.  JavaScript values are tagged records (field t is the      *)
(* typeof-like tag).  Money and the confidence score are integer numbers   *)
(* of thousandths (7010 is 7.01, 950 is 0.95), so toFixed(2) rounds to a   *)
(* multiple of 10 and the 0.01 tolerance is 10.  Strings the code inspects *)
(* (error messages, file names) are sequences of atoms; the substring      *)
(* tests the code makes are tables over those atoms.  Wall-clock values    *)
(* (processing_time, extracted_at, timestamp) are left out of the records. *)
(***************************************************************************)
EXTENDS Integers, Sequences, FiniteSets, TLC

(***************************************************************************)
(* JavaScript values                                                       *)
(***************************************************************************)
Undef == [t |-> "undefined"]
Null == [t |-> "null"]
NaN == [t |-> "NaN"]
Num(n) == [t |-> "number", v |-> n]
Str(s) == [t |-> "string", v |-> s]
Bool(b) == [t |-> "boolean", v |-> b]
Arr(s) == [t |-> "array", v |-> s]
\* a non-empty string put together from parts (template literal)
Text(parts) == [t |-> "text", v |-> parts]
Obj(r) == [t |-> "object", v |-> r]

IsNum(x) == x.t = "number"
IsStr(x) == x.t = "string"
IsArr(x) == x.t = "array"

\* typeof x === 'number' (NaN is a number to typeof)
TypeofNumber(x) == x.t \in {"number", "NaN"}

\* JavaScript truthiness
Truthy(x) ==
    CASE x.t = "undefined" -> FALSE
      [] x.t = "null" -> FALSE
      [] x.t = "NaN" -> FALSE
      [] x.t = "number" -> x.v # 0
      [] x.t = "string" -> x.v # ""
      [] x.t = "boolean" -> x.v
      [] OTHER -> TRUE

\* a || b
OrElse(a, b) == IF Truthy(a) THEN a ELSE b

\* Number(x).  Of the strings of the model only "7.01" is a numeric
\* literal; any other string converts to NaN (the empty string to 0).
ToNumber(x) ==
    CASE x.t = "number" -> x
      [] x.t = "null" -> Num(0)
      [] x.t = "boolean" -> Num(IF x.v THEN 1 ELSE 0)
      [] x.t = "string" -> IF x.v = "" THEN Num(0)
                           ELSE IF x.v = "7.01" THEN Num(7010)
                           ELSE NaN
      [] OTHER -> NaN

\* a + b and a - b where the result is only used as a number.  With a
\* string operand a + b concatenates; the strings that reach + in the
\* model are not numeric, so the concatenation is NaN in every later
\* numeric use and NaN stands for it.
JsAdd(a, b) ==
    IF IsStr(a) \/ IsStr(b) THEN NaN
    ELSE LET x == ToNumber(a)
             y == ToNumber(b)
         IN  IF IsNum(x) /\ IsNum(y) THEN Num(x.v + y.v) ELSE NaN

JsSub(a, b) ==
    LET x == ToNumber(a)
        y == ToNumber(b)
    IN  IF IsNum(x) /\ IsNum(y) THEN Num(x.v - y.v) ELSE NaN

JsAbs(a) ==
    LET x == ToNumber(a)
    IN  IF IsNum(x) THEN Num(IF x.v < 0 THEN -x.v ELSE x.v) ELSE NaN

\* a > b and a <= b on numbers: every comparison with NaN is false
JsGt(a, b) ==
    LET x == ToNumber(a)
        y == ToNumber(b)
    IN  IsNum(x) /\ IsNum(y) /\ x.v > y.v

JsLe(a, b) ==
    LET x == ToNumber(a)
        y == ToNumber(b)
    IN  IsNum(x) /\ IsNum(y) /\ x.v <= y.v

JsLt(a, b) ==
    LET x == ToNumber(a)
        y == ToNumber(b)
    IN  IsNum(x) /\ IsNum(y) /\ x.v < y.v

\* Number(Number(x).toFixed(2)): the nearest hundredth of a number of
\* thousandths (no number of the model lies halfway between two)
ToFixed2(x) ==
    LET n == ToNumber(x)
    IN  IF ~IsNum(n) THEN NaN
        ELSE IF n.v >= 0 THEN Num(((n.v + 5) \div 10) * 10)
        ELSE Num(-(((5 - n.v) \div 10) * 10))

(***************************************************************************)
(* Error values and message tests                                          *)
(***************************************************************************)
Err(cls, msg) == [cls |-> cls, msg |-> msg]

NotAReceiptPrefix == "NOT_A_RECEIPT: "

\* message.startsWith('NOT_A_RECEIPT:')
StartsWithNotAReceipt(msg) == Len(msg) > 0 /\ msg[1] = NotAReceiptPrefix

\* the needles createExtractionError looks for, per message atom
AtomContains(a) ==
    CASE a = "network timeout at: https://generativelanguage.googleapis.com" ->
            {"network", "timeout"}
      [] a = "Failed to parse AI response: " -> {"parse"}
      [] a = "Unexpected token N in JSON at position 0" -> {"JSON"}
      [] a = "Incorrect API key provided" -> {"API key"}
      [] a = "At least one receipt item is required" ->
            {"At least one receipt item is required"}
      [] OTHER -> {}

\* message.includes(needle)
Includes(msg, needle) == \E i \in 1..Len(msg) : needle \in AtomContains(msg[i])

(***************************************************************************)
(* Uploaded files: validateReceiptFile                                     *)
(***************************************************************************)
maxSizeInBytes == 10 * 1024 * 1024

allowedMimeTypes == {"image/jpeg", "image/jpg", "image/png", "image/webp"}

allowedExtensions == {".jpg", ".jpeg", ".png", ".webp"}

\* the part of String.toLowerCase the file names of the model need
ToLowerCase(s) ==
    CASE s = ".JPG" -> ".jpg"
      [] s = ".PNG" -> ".png"
      [] OTHER -> s

\* a file name is the sequence of its dot-separated parts, each part after
\* the first written with its leading dot: <<"receipt", ".jpg">>
getFileExtension(filename) ==
    IF Len(filename) > 1 THEN filename[Len(filename)] ELSE ""

\* the BadRequestException validateReceiptFile throws, or Undef when it
\* accepts the file
ValidateReceiptFileError(file) ==
    IF file = Undef
      THEN Err("BadRequestException", <<"No file uploaded. Please upload a receipt image.">>)
    ELSE IF file.size > maxSizeInBytes
      THEN Err("BadRequestException", <<"File size exceeds limit.">>)
    ELSE IF file.mimetype \notin allowedMimeTypes
      THEN Err("BadRequestException", <<"Invalid file type.", file.mimetype>>)
    ELSE IF file.size = 0
      THEN Err("BadRequestException", <<"Uploaded file is empty. Please upload a valid receipt image.">>)
    ELSE IF ToLowerCase(getFileExtension(file.originalname)) \notin allowedExtensions
      THEN Err("BadRequestException",
               <<"Invalid file extension.", getFileExtension(file.originalname)>>)
    ELSE Undef

\* variant: the extension test is left out
validateReceiptFile_IgnoresExtension(file) ==
    /\ file # Undef
    /\ file.size <= maxSizeInBytes
    /\ file.mimetype \in allowedMimeTypes
    /\ file.size # 0

validateReceiptFile(file) == ValidateReceiptFileError(file) = Undef

(***************************************************************************)
(* AiService: currency, date, repair                                       *)
(***************************************************************************)
validCurrencies ==
    {"USD", "EUR", "GBP", "CAD", "AUD", "SGD", "CHF", "JPY", "CNY", "INR", "NZD", "HKD"}

taxInclusiveCurrencies == {"EUR", "GBP", "CHF", "AUD", "NZD"}

\* the keywords of inferCurrency that vendor_name.toLowerCase() contains
VendorKeywords(name) ==
    CASE name = "Sydney Cafe" -> {"sydney"}
      [] name = "Swiss Bakery" -> {"swiss"}
      [] name = "Eurospar UK" -> {"euro", "uk"}
      [] OTHER -> {}

\* variant: no default when the vendor name tells nothing
inferCurrency_NoDefault(data) ==
    LET kw == IF IsStr(data.vendor_name) THEN VendorKeywords(data.vendor_name.v) ELSE {}
    IN  IF "australia" \in kw \/ "sydney" \in kw THEN "AUD"
        ELSE IF "canada" \in kw \/ "toronto" \in kw THEN "CAD"
        ELSE IF "singapore" \in kw THEN "SGD"
        ELSE IF "switzerland" \in kw \/ "swiss" \in kw THEN "CHF"
        ELSE IF "europe" \in kw \/ "euro" \in kw THEN "EUR"
        ELSE IF "uk" \in kw \/ "britain" \in kw THEN "GBP"
        ELSE "unknown"

inferCurrency(data) ==
    LET kw == IF IsStr(data.vendor_name) THEN VendorKeywords(data.vendor_name.v) ELSE {}
    IN  IF "australia" \in kw \/ "sydney" \in kw THEN "AUD"
        ELSE IF "canada" \in kw \/ "toronto" \in kw THEN "CAD"
        ELSE IF "singapore" \in kw THEN "SGD"
        ELSE IF "switzerland" \in kw \/ "swiss" \in kw THEN "CHF"
        ELSE IF "europe" \in kw \/ "euro" \in kw THEN "EUR"
        ELSE IF "uk" \in kw \/ "britain" \in kw THEN "GBP"
        ELSE "USD"

\* new Date(dateStr) then toISOString().split('T')[0], or null when the
\* date is invalid; the table lists what Date makes of the model's strings
parseAndFormatDate(dateStr) ==
    CASE dateStr = Str("2023-09-09") -> Str("2023-09-09")
      [] dateStr = Str("2023-09-10T12:00:00Z") -> Str("2023-09-10")
      [] OTHER -> Null

\* sum of item_cost * (quantity || 1) over the items
RECURSIVE SumItems(_)
SumItems(items) ==
    IF items = <<>> THEN 0
    ELSE LET it == Head(items)
         IN  it.item_cost * OrElse(it.quantity, Num(1)).v + SumItems(Tail(items))

\* sum of (tax.amount || 0) over additional_taxes
RECURSIVE SumTaxes(_)
SumTaxes(taxes) ==
    IF taxes = <<>> THEN 0
    ELSE OrElse(Head(taxes).amount, Num(0)).v + SumTaxes(Tail(taxes))

tolerance == 10

\* validateAndEnhanceData, block by block; each operator is one block of
\* the method, from the record before it to the record after it

\* currency validation and inference
EnhanceCurrency(data) ==
    IF IsStr(data.currency) /\ data.currency.v \in validCurrencies
      THEN data
      ELSE [data EXCEPT !.currency = Str(inferCurrency(data))]

\* date validation and formatting
EnhanceDate(data) ==
    IF Truthy(data.date)
      THEN [data EXCEPT !.date = parseAndFormatDate(data.date)]
      ELSE data

\* ensure tax_details exists
EnsureTaxDetails(data) ==
    IF ~Truthy(data.tax_details)
      THEN [data EXCEPT !.tax_details =
              Obj([tax_inclusive |-> Undef, additional_taxes |-> Undef])]
      ELSE data

\* tax_inclusive from the currency when it === undefined
ResolveTaxInclusive(data) ==
    IF data.tax_details.v.tax_inclusive = Undef
      THEN [data EXCEPT !.tax_details.v.tax_inclusive =
              Bool(data.currency.v \in taxInclusiveCurrencies)]
      ELSE data

\* calculate subtotal based on tax type
DeriveSubtotal(data) ==
    IF Truthy(data.tax_details.v.tax_inclusive)
      THEN IF ~Truthy(data.subtotal) /\ Truthy(data.total) /\ Truthy(data.tax)
             THEN [data EXCEPT !.subtotal = ToFixed2(JsSub(data.total, data.tax))]
             ELSE data
      ELSE IF ~Truthy(data.subtotal) /\ Truthy(data.receipt_items)
             THEN [data EXCEPT !.subtotal = ToFixed2(Num(SumItems(data.receipt_items.v)))]
             ELSE data

\* multiple taxes: tax becomes the sum of additional_taxes when it differs
SumAdditionalTaxes(data) ==
    IF /\ Truthy(data.tax_details.v.additional_taxes)
       /\ Len(data.tax_details.v.additional_taxes.v) > 0
       /\ JsGt(JsAbs(JsSub(data.tax, Num(SumTaxes(data.tax_details.v.additional_taxes.v)))),
               Num(tolerance))
      THEN [data EXCEPT !.tax = ToFixed2(Num(SumTaxes(data.tax_details.v.additional_taxes.v)))]
      ELSE data

\* isValid: (subtotal || 0) + (tax || 0) against total, in both tax regimes
IsMathValid(data) ==
    JsLe(JsAbs(JsSub(JsAdd(OrElse(data.subtotal, Num(0)), OrElse(data.tax, Num(0))),
                     data.total)),
         Num(tolerance))

\* variant: the mathematical check never counts as passed
ScoreConsistency_Pessimistic(data) == [data EXCEPT !.confidence_score = Num(800)]

\* confidence from the mathematical check
ScoreConsistency(data) ==
    [data EXCEPT !.confidence_score = IF IsMathValid(data) THEN Num(950) ELSE Num(800)]

\* the image quality left out of the confidence
ScoreImageQuality_Skipped(data) == data

\* confidence adjusted for image quality
ScoreImageQuality(data) ==
    IF Truthy(data.image_quality) /\ data.image_quality.v.is_clear = Bool(FALSE)
      THEN IF data.total = Null
             THEN [data EXCEPT !.confidence_score = Num(500)]
             ELSE [data EXCEPT !.confidence_score = Num(700)]
      ELSE data

\* ensure all monetary values are numbers
CoerceNumbers(data) ==
    [data EXCEPT !.total = OrElse(ToNumber(data.total), Num(0)),
                 !.tax = OrElse(ToNumber(data.tax), Num(0)),
                 !.subtotal = IF Truthy(data.subtotal)
                                THEN ToNumber(data.subtotal)
                                ELSE data.subtotal]

validateAndEnhanceData(data) ==
    CoerceNumbers(ScoreImageQuality(ScoreConsistency(SumAdditionalTaxes(
        DeriveSubtotal(ResolveTaxInclusive(EnsureTaxDetails(EnhanceDate(
            EnhanceCurrency(data)))))))))

(***************************************************************************)
(* AiService: response parser                                              *)
(***************************************************************************)
\* A model response text is a sequence of tokens: the markdown code fences
\* the cleaning step removes (three backquotes, with or without "json"),
\* and what is left between them.  What is left is a JSON document (a
\* tagged value) or text that is no JSON (a Str).
FenceJson == Str("[fence]json")
Fence == Str("[fence]")
Fences == {FenceJson, Fence}

CleanContent(content) == SelectSeq(content, LAMBDA tok : tok \notin Fences)

Ok(data) == [ok |-> TRUE, data |-> data]
Fail(error) == [ok |-> FALSE, error |-> error]

\* JSON.parse(cleanContent)
JsonParse(clean) ==
    IF Len(clean) = 1 /\ clean[1].t \in {"object", "null"}
      THEN Ok(clean[1])
      ELSE Fail(Err("SyntaxError", <<"Unexpected token N in JSON at position 0">>))

\* variant: the parser without its test of total
CheckParsed_NoTotalCheck(parsed) ==
    IF parsed = Null
      THEN Fail(Err("TypeError", <<"Cannot read properties of null">>))
    ELSE IF parsed.v.is_receipt = Bool(FALSE)
      THEN Fail(Err("Error",
                    <<NotAReceiptPrefix,
                      OrElse(parsed.v.reason,
                             Str("This image does not appear to be a receipt or invoice")).v>>))
    ELSE IF ~Truthy(parsed.v.vendor_name)
      THEN Fail(Err("Error", <<"Vendor name is required">>))
    ELSE IF ~Truthy(parsed.v.receipt_items) \/ Len(parsed.v.receipt_items.v) = 0
      THEN Fail(Err("Error", <<"At least one receipt item is required">>))
    ELSE Ok(validateAndEnhanceData(parsed.v))

\* the body of the try block of parseAndValidateResponse, after JSON.parse
CheckParsed(parsed) ==
    IF parsed = Null
      THEN Fail(Err("TypeError", <<"Cannot read properties of null">>))
    ELSE IF parsed.v.is_receipt = Bool(FALSE)
      THEN Fail(Err("Error",
                    <<NotAReceiptPrefix,
                      OrElse(parsed.v.reason,
                             Str("This image does not appear to be a receipt or invoice")).v>>))
    ELSE IF ~Truthy(parsed.v.vendor_name)
      THEN Fail(Err("Error", <<"Vendor name is required">>))
    ELSE IF ~Truthy(parsed.v.receipt_items) \/ Len(parsed.v.receipt_items.v) = 0
      THEN Fail(Err("Error", <<"At least one receipt item is required">>))
    ELSE IF Truthy(parsed.v.image_quality) /\ parsed.v.image_quality.v.is_clear = Bool(FALSE)
      THEN IF parsed.v.total # Null
                /\ (~TypeofNumber(parsed.v.total) \/ JsLt(parsed.v.total, Num(0)))
             THEN Fail(Err("Error",
                      <<"Total must be a positive number or null if image quality is poor">>))
             ELSE Ok(validateAndEnhanceData(parsed.v))
    ELSE IF ~TypeofNumber(parsed.v.total) \/ JsLt(parsed.v.total, Num(0))
      THEN Fail(Err("Error", <<"Total must be a positive number">>))
    ELSE Ok(validateAndEnhanceData(parsed.v))

\* the catch block: a NOT_A_RECEIPT error is rethrown as it is, any other
\* error is wrapped
WrapParseError(error) ==
    IF StartsWithNotAReceipt(error.msg)
      THEN error
      ELSE Err("Error", <<"Failed to parse AI response: ">> \o error.msg)

parseAndValidateResponse(content) ==
    LET decoded == JsonParse(CleanContent(content))
        checked == IF decoded.ok THEN CheckParsed(decoded.data) ELSE decoded
    IN  IF checked.ok THEN checked ELSE Fail(WrapParseError(checked.error))

(***************************************************************************)
(* AiService.generateWarnings                                              *)
(***************************************************************************)
\* a warning is a sequence of atoms: its fixed text, then what the code
\* interpolates into it
RECURSIVE IssueWarnings(_)
IssueWarnings(issues) ==
    IF issues = <<>> THEN <<>>
    ELSE <<(<<"Image Quality: ", Head(issues)>>)>> \o IssueWarnings(Tail(issues))

RECURSIVE ItemWarnings(_, _)
ItemWarnings(items, index) ==
    IF index > Len(items) THEN <<>>
    ELSE LET item == items[index]
         IN  (IF item.item_name = "Unknown Item (unclear image)"
                THEN <<(<<"Image Quality: Item name could not be identified", index>>)>>
                ELSE <<>>)
             \o (IF item.item_cost = 0
                   THEN <<(<<"Image Quality: Item cost set to 0.00", item.item_name, index>>)>>
                   ELSE <<>>)
             \o ItemWarnings(items, index + 1)

\* variant: no warning for a confidence below 0.9
generateWarnings_NoLowConfidence(data) ==
    LET unclear == Truthy(data.image_quality)
                     /\ data.image_quality.v.is_clear = Bool(FALSE)
    IN  (IF ~Truthy(data.date) THEN << <<"Date could not be extracted">> >> ELSE <<>>)
        \o (IF ~Truthy(data.vendor_name)
              THEN << <<"Vendor name could not be determined">> >> ELSE <<>>)
        \o (IF Len(data.receipt_items.v) = 0
              THEN << <<"No items could be extracted">> >> ELSE <<>>)
        \o (IF unclear /\ Truthy(data.image_quality.v.issues)
                 /\ Len(data.image_quality.v.issues.v) > 0
              THEN IssueWarnings(data.image_quality.v.issues.v) ELSE <<>>)
        \o (IF unclear THEN ItemWarnings(data.receipt_items.v, 1) ELSE <<>>)
        \o (IF data.subtotal # Undef /\ data.tax # Undef
                 /\ JsGt(JsAbs(JsSub(JsAdd(data.subtotal, data.tax), data.total)),
                         Num(tolerance))
              THEN << <<"Mathematical validation: subtotal + tax does not equal total",
                        data.subtotal, data.tax, data.total>> >>
              ELSE <<>>)

\* the warnings of generateWarnings, for every record
generateWarnings(data) ==
    LET unclear == Truthy(data.image_quality)
                     /\ data.image_quality.v.is_clear = Bool(FALSE)
    IN  (IF ~Truthy(data.date) THEN << <<"Date could not be extracted">> >> ELSE <<>>)
        \o (IF ~Truthy(data.vendor_name)
              THEN << <<"Vendor name could not be determined">> >> ELSE <<>>)
        \o (IF Len(data.receipt_items.v) = 0
              THEN << <<"No items could be extracted">> >> ELSE <<>>)
        \o (IF unclear /\ Truthy(data.image_quality.v.issues)
                 /\ Len(data.image_quality.v.issues.v) > 0
              THEN IssueWarnings(data.image_quality.v.issues.v) ELSE <<>>)
        \o (IF unclear THEN ItemWarnings(data.receipt_items.v, 1) ELSE <<>>)
        \o (IF data.subtotal # Undef /\ data.tax # Undef
                 /\ JsGt(JsAbs(JsSub(JsAdd(data.subtotal, data.tax), data.total)),
                         Num(tolerance))
              THEN << <<"Mathematical validation: subtotal + tax does not equal total",
                        data.subtotal, data.tax, data.total>> >>
              ELSE <<>>)
        \o (IF JsLt(data.confidence_score, Num(900))
              THEN << <<"Low confidence in extraction accuracy">> >> ELSE <<>>)

(***************************************************************************)
(* dto/validation.utils: validateExtractionConsistency                     *)
(***************************************************************************)
\* currency.toUpperCase() for the currency strings of the model
ToUpperCase(s) ==
    CASE s = "usd" -> "USD"
      [] s = "eur" -> "EUR"
      [] OTHER -> s

isSupportedCurrency(currency) == ToUpperCase(currency) \in validCurrencies

\* data.tax_details?.tax_inclusive === true
isTaxInclusive(data) ==
    /\ data.tax_details.t = "object"
    /\ data.tax_details.v.tax_inclusive = Bool(TRUE)

\* data.receipt_items?.reduce(sum + (item_cost || 0) * (quantity || 1), 0) || 0
itemsTotal(data) ==
    IF IsArr(data.receipt_items) THEN SumItems(data.receipt_items.v) ELSE 0

\* the check without the look at the items on a tax-inclusive receipt
MathWarnings_NoSuppression(data) ==
    LET subtotal == ToNumber(data.subtotal)
        tax == ToNumber(data.tax)
        total == ToNumber(data.total)
    IN  IF isTaxInclusive(data)
          THEN IF JsGt(JsAbs(JsSub(JsSub(total, tax), subtotal)), Num(tolerance))
                 THEN << <<"Tax-inclusive receipt validation: Expected subtotal of",
                           ToFixed2(JsSub(total, tax)), total, tax, subtotal>> >>
                 ELSE <<>>
          ELSE IF JsGt(JsAbs(JsSub(JsAdd(subtotal, tax), total)), Num(tolerance))
                 THEN << <<"Mathematical inconsistency", subtotal, tax,
                           ToFixed2(JsAdd(subtotal, tax)), total>> >>
                 ELSE <<>>

\* the mathematical check made when subtotal, tax and total are all there:
\* total - tax against subtotal on a tax-inclusive receipt (no warning when
\* the items add up to the total), subtotal + tax against total otherwise
MathWarnings(data) ==
    LET subtotal == ToNumber(data.subtotal)
        tax == ToNumber(data.tax)
        total == ToNumber(data.total)
    IN  IF isTaxInclusive(data)
          THEN IF /\ JsGt(JsAbs(JsSub(JsSub(total, tax), subtotal)), Num(tolerance))
                  /\ ~JsLe(JsAbs(JsSub(Num(itemsTotal(data)), total)), Num(tolerance))
                 THEN << <<"Tax-inclusive receipt validation: Expected subtotal of",
                           ToFixed2(JsSub(total, tax)), total, tax, subtotal>> >>
                 ELSE <<>>
          ELSE IF JsGt(JsAbs(JsSub(JsAdd(subtotal, tax), total)), Num(tolerance))
                 THEN << <<"Mathematical inconsistency", subtotal, tax,
                           ToFixed2(JsAdd(subtotal, tax)), total>> >>
                 ELSE <<>>

\* the check made only when subtotal, tax and total are all truthy
validateExtractionConsistency_SkipsZero(data) ==
    (IF Truthy(data.subtotal) /\ Truthy(data.tax) /\ Truthy(data.total)
       THEN MathWarnings(data)
       ELSE <<>>)
    \o (IF ~Truthy(data.vendor_name)
          THEN << <<"Vendor name could not be extracted">> >> ELSE <<>>)
    \o (IF ~Truthy(data.receipt_items) \/ Len(data.receipt_items.v) = 0
          THEN << <<"No receipt items could be extracted">> >> ELSE <<>>)
    \o (IF ~Truthy(data.date)
          THEN << <<"Receipt date could not be determined">> >> ELSE <<>>)
    \o (IF Truthy(data.currency) /\ ~isSupportedCurrency(data.currency.v)
          THEN << <<"Unsupported currency detected", data.currency.v>> >> ELSE <<>>)

validateExtractionConsistency(data) ==
    (IF data.subtotal # Undef /\ data.tax # Undef /\ data.total # Undef
       THEN MathWarnings(data)
       ELSE <<>>)
    \o (IF ~Truthy(data.vendor_name)
          THEN << <<"Vendor name could not be extracted">> >> ELSE <<>>)
    \o (IF ~Truthy(data.receipt_items) \/ Len(data.receipt_items.v) = 0
          THEN << <<"No receipt items could be extracted">> >> ELSE <<>>)
    \o (IF ~Truthy(data.date)
          THEN << <<"Receipt date could not be determined">> >> ELSE <<>>)
    \o (IF Truthy(data.currency) /\ ~isSupportedCurrency(data.currency.v)
          THEN << <<"Unsupported currency detected", data.currency.v>> >> ELSE <<>>)

(***************************************************************************)
(* ReceiptsValidationService                                               *)
(***************************************************************************)
\* determineExtractionStatus without the test of total
determineExtractionStatus_IgnoresTotal(data, warnings) ==
    IF ~Truthy(data.vendor_name)
         \/ ~(Truthy(data.receipt_items) /\ Len(data.receipt_items.v) > 0)
      THEN "failed"
    ELSE IF Len(warnings) > 2
              \/ (Truthy(data.confidence_score) /\ JsLt(data.confidence_score, Num(700)))
      THEN "partial"
    ELSE "success"

determineExtractionStatus(data, warnings) ==
    IF ~Truthy(data.vendor_name) \/ ~Truthy(data.total)
         \/ ~(Truthy(data.receipt_items) /\ Len(data.receipt_items.v) > 0)
      THEN "failed"
    ELSE IF Len(warnings) > 2
              \/ (Truthy(data.confidence_score) /\ JsLt(data.confidence_score, Num(700)))
      THEN "partial"
    ELSE "success"

\* the error_code createExtractionError chooses, in the order of its tests
ErrorCode(error) ==
    IF StartsWithNotAReceipt(error.msg) THEN "NOT_A_RECEIPT"
    ELSE IF error.cls = "BadRequestException" THEN "VALIDATION_ERROR"
    ELSE IF Includes(error.msg, "network") \/ Includes(error.msg, "timeout")
      THEN "AI_SERVICE_UNAVAILABLE"
    ELSE IF Includes(error.msg, "parse") \/ Includes(error.msg, "JSON")
      THEN "AI_RESPONSE_ERROR"
    ELSE IF Includes(error.msg, "API key") \/ Includes(error.msg, "authentication")
      THEN "CONFIGURATION_ERROR"
    ELSE IF Includes(error.msg, "At least one receipt item is required")
      THEN "NO_ITEMS_FOUND"
    ELSE "EXTRACTION_FAILED"

\* the error envelope: the response object of the BadRequestException
createExtractionError(extractionId, error) ==
    LET errorCode == ErrorCode(error)
    IN  [status |-> "error",
         error_code |-> errorCode,
         message |->
            CASE errorCode = "NOT_A_RECEIPT" -> Tail(error.msg)
              [] errorCode = "VALIDATION_ERROR" -> error.msg
              [] errorCode = "AI_SERVICE_UNAVAILABLE" ->
                    <<"AI service is temporarily unavailable. Please try again.">>
              [] errorCode = "AI_RESPONSE_ERROR" ->
                    <<"AI service returned invalid response. The receipt might be unclear.">>
              [] errorCode = "CONFIGURATION_ERROR" ->
                    <<"Service configuration error. Please contact support.">>
              [] errorCode = "NO_ITEMS_FOUND" ->
                    <<"Could not identify any items on the receipt. The image might be unclear or incomplete.">>
              [] OTHER -> <<"Failed to extract receipt data">>,
         extraction_id |-> extractionId,
         details |->
            IF errorCode = "NOT_A_RECEIPT"
              THEN << <<"Please upload an image of a receipt or invoice">> >>
              ELSE << <<"Error details: ">> \o error.msg >>]

(***************************************************************************)
(* Inputs of the model                                                     *)
(***************************************************************************)
\* the requests in flight
Reqs == {"r1", "r2"}

\* what the n-th call of uuidv4() returns: a fresh id each time
uuidv4(n) == Str(<<"uuid-1", "uuid-2", "uuid-3", "uuid-4">>[n])

File(size, mimetype, originalname) ==
    [size |-> size, mimetype |-> mimetype, originalname |-> originalname]

AllFiles ==
    {Undef} \cup
    { File(size, mimetype, name) :
        size \in {0, maxSizeInBytes, maxSizeInBytes + 1},
        mimetype \in {"image/jpeg", "image/webp", "application/pdf"},
        name \in {<<"scan", ".PNG">>, <<"document", ".pdf">>, <<"receipt">>} }

AllOptions ==
    [customId : {Undef, Str(""), Str("c1")},
     saveImage : {Undef, Bool(TRUE), Bool(FALSE)},
     includeMetadata : {Bool(FALSE), Bool(TRUE)}]

Item(name, cost, quantity) ==
    [item_name |-> name, item_cost |-> cost, quantity |-> quantity]

\* longest item list a model output carries
MaxItems == 2

\* the items of the model; an output carries the first k of them
Catalog ==
    << Item("Milk", 3990, Num(1)),
       Item("Bread", 2500, Undef),
       Item("Unknown Item (unclear image)", 0, Num(1)),
       Item("Eggs", 1200, Num(2)) >>

Items(k) == SubSeq(Catalog, 1, k)

ItemLists == { Arr(Items(k)) : k \in 0..MaxItems }

UnclearImage == Obj([is_clear |-> Bool(FALSE), issues |-> Arr(<<"blurry">>)])

\* decoded model outputs: the fields the parser tests vary, the others are
\* those of a grocery receipt (subtotal 6.49, tax 0.52, USD)
AllRawRecords ==
    { rec \in [is_receipt : {Undef, Bool(FALSE)},
               reason : {Undef, Str("photo of a cat")},
               vendor_name : {Undef, Str(""), Str("Grocery Store Inc.")},
               receipt_items : {Undef} \cup ItemLists,
               total : {Null, Num(-1000), Num(7014), Num(20006), Str("7.01")},
               image_quality : {Undef, UnclearImage},
               subtotal : {Num(6490)},
               tax : {Num(520)},
               tax_details : {Undef},
               currency : {Str("USD")},
               date : {Str("2023-09-09")},
               payment_method : {Str("Card")},
               receipt_number : {Undef},
               confidence_score : {Undef},
               extraction_metadata : {Undef}] :
        (rec.reason # Undef) => (rec.is_receipt = Bool(FALSE)) }

\* additional_taxes: two taxes that add up to 0.52, and one of 0.40 next
\* to one without an amount
StateAndCityTax ==
    << [name |-> "State Tax", amount |-> Num(300)],
       [name |-> "City Tax", amount |-> Num(220)] >>

GstOnly ==
    << [name |-> "GST", amount |-> Num(400)],
       [name |-> "PST", amount |-> Undef] >>

\* the grocery receipt with its tax listed as two taxes
TwoTaxReceipt ==
    [is_receipt |-> Bool(TRUE), reason |-> Undef,
     vendor_name |-> Str("Grocery Store Inc."),
     receipt_items |-> Arr(Items(1)),
     total |-> Num(4510), image_quality |-> Undef, subtotal |-> Num(3990),
     tax |-> Num(520),
     tax_details |-> Obj([tax_inclusive |-> Bool(FALSE),
                          additional_taxes |-> Arr(StateAndCityTax)]),
     currency |-> Str("USD"),
     date |-> Str("2023-09-09"), payment_method |-> Str("Card"),
     receipt_number |-> Undef, confidence_score |-> Undef,
     extraction_metadata |-> Undef]

\* a receipt on which everything was free: one item of 0.00, all amounts 0
FreeReceipt ==
    [is_receipt |-> Bool(TRUE), reason |-> Undef,
     vendor_name |-> Str("Grocery Store Inc."),
     receipt_items |-> Arr(<<Item("Free Sample", 0, Num(1))>>),
     total |-> Num(0), image_quality |-> Undef, subtotal |-> Num(0),
     tax |-> Num(0), tax_details |-> Undef, currency |-> Str("USD"),
     date |-> Str("2023-09-09"), payment_method |-> Str("Card"),
     receipt_number |-> Undef, confidence_score |-> Undef,
     extraction_metadata |-> Undef]

\* the records the model also sends inside code fences
FencedRecords ==
    { rec \in AllRawRecords :
        /\ rec.vendor_name = Str("Grocery Store Inc.")
        /\ rec.receipt_items = Arr(Items(2))
        /\ rec.total = Num(7014)
        /\ rec.image_quality = Undef }

GatewayErrors ==
    { Err("Error", <<"Network error">>),
      Err("Error", <<"network timeout at: https://generativelanguage.googleapis.com">>),
      Err("Error", <<"Incorrect API key provided">>) }

Throws(error) == [kind |-> "throws", error |-> error]
Content(content) == [kind |-> "content", content |-> content]
NoContent == [kind |-> "nocontent"]

\* what one call of the model gateway can come back with: a thrown error,
\* no content, text that is no JSON, the JSON null, a JSON record bare or
\* inside code fences
AllOutcomes ==
    { Throws(e) : e \in GatewayErrors }
    \cup { NoContent, Content(<<>>), Content(<<Str("I cannot read this image")>>),
           Content(<<Null>>) }
    \cup { Content(<<Obj(rec)>>) : rec \in AllRawRecords \cup {FreeReceipt, TwoTaxReceipt} }
    \cup { Content(<<FenceJson, Obj(rec), Fence>>) : rec \in FencedRecords }

\* the smaller alphabets used when two requests run concurrently
FewFiles ==
    { File(1024, "image/jpeg", <<"receipt", ".jpg">>),
      File(1024, "application/pdf", <<"document", ".pdf">>) }

FewOptions ==
    [customId : {Undef, Str("c1")},
     saveImage : {Bool(TRUE)},
     includeMetadata : {Bool(TRUE)}]

GroceryReceipt ==
    [is_receipt |-> Bool(TRUE), reason |-> Undef,
     vendor_name |-> Str("Grocery Store Inc."),
     receipt_items |-> Arr(Items(2)),
     total |-> Num(7010), image_quality |-> Undef, subtotal |-> Num(6490),
     tax |-> Num(520), tax_details |-> Undef, currency |-> Str("USD"),
     date |-> Str("2023-09-09"), payment_method |-> Str("Card"),
     receipt_number |-> Undef, confidence_score |-> Undef,
     extraction_metadata |-> Undef]

FewOutcomes ==
    { Throws(Err("Error", <<"Network error">>)),
      Content(<<Obj(GroceryReceipt)>>),
      Content(<<Obj([GroceryReceipt EXCEPT !.is_receipt = Bool(FALSE),
                                           !.reason = Str("photo of a cat")])>>) }

Files(e) == IF e = "single" THEN AllFiles ELSE FewFiles
Options(e) == IF e = "single" THEN AllOptions ELSE FewOptions
Outcomes(e) == IF e = "single" THEN AllOutcomes ELSE FewOutcomes

(***************************************************************************)
(* State                                                                   *)
(***************************************************************************)
VARIABLES
    env,                  \* "single": one request, all inputs; "concurrent": two requests
    req,                  \* per request: the locals of extractReceiptData and its callees
    uuidCount,            \* number of uuidv4() calls made so far
    receipts,             \* table receipts: set of rows
    receipt_items,        \* table receipt_items: set of rows
    extraction_metadata,  \* table extraction_metadata: set of rows
    rowCount,             \* number of receipts rows ever inserted (row ids)
    bucket,               \* Supabase bucket: file name -> request whose image it holds
    uploads,              \* local upload directory: file name -> request
    call                  \* one call of a pure method: its arguments and what it returned

vars == <<env, req, uuidCount, receipts, receipt_items, extraction_metadata,
          rowCount, bucket, uploads, call>>

maxRetries == 3
retryDelay == 1000

\* the locals of a request before it arrives
Idle ==
    [pc |-> "idle", file |-> Undef, extractOptions |-> Undef, extractionId |-> Undef,
     imageUrl |-> Undef, attempt |-> 0, lastError |-> Undef, extractedData |-> Undef,
     allWarnings |-> <<>>, status |-> Undef, response |-> Undef, saveData |-> Undef,
     receiptId |-> 0, returned |-> Undef, caught |-> Undef, thrown |-> Undef,
     dbError |-> "",
     \* history, not program state
     imageSave |-> "none",        \* how the image save ended: "ok", "failed"
     calls |-> 0,                 \* model gateway calls made
     failures |-> 0,              \* attempts failed with a retryable error
     notReceiptSeen |-> FALSE,    \* the latest output decoded to is_receipt = false
     lastResult |-> Undef,        \* what the latest attempt ended with
     decoded |-> Undef,           \* the model output the orchestrator returned data for
     delays |-> <<>>,             \* the backoff delays slept, in ms
     events |-> <<>>]             \* the side effects, in order

Off == [Idle EXCEPT !.pc = "off"]

\* no pure method is being called on its own
NoCall == [pc |-> "none", data |-> Undef, warnings |-> <<>>, result |-> Undef,
           again |-> Undef]

InitState(e, active) ==
    /\ env = e
    /\ call = NoCall
    /\ req = [r \in Reqs |-> IF r \in active THEN Idle ELSE Off]
    /\ uuidCount = 0
    /\ receipts = {}
    /\ receipt_items = {}
    /\ extraction_metadata = {}
    /\ rowCount = 0
    /\ bucket = [name \in {} |-> Undef]
    /\ uploads = [name \in {} |-> Undef]

Init == InitState("single", {"r1"})

InitConcurrent == InitState("concurrent", Reqs)

Database == <<receipts, receipt_items, extraction_metadata, rowCount>>
ImageStore == <<bucket, uploads>>

(***************************************************************************)
(* ReceiptsService.extractReceiptData                                      *)
(***************************************************************************)
\* the catch block of extractReceiptData: the request ends by throwing the
\* envelope createExtractionError builds
Throw(q, error) ==
    [q EXCEPT !.pc = "error",
              !.caught = error,
              !.thrown = createExtractionError(q.extractionId, error),
              !.events = @ \o <<"throw">>]

\* extractOptions.customId || uuidv4()
NeedsUuid(extractOptions) == ~Truthy(extractOptions.customId)

\* Entry of extractReceiptData up to its first await: the id is assigned,
\* the file validated, and the image save started when it is asked for.
Start(r, file, extractOptions) ==
    /\ req[r].pc = "idle"
    /\ LET extractionId == IF NeedsUuid(extractOptions)
                             THEN uuidv4(uuidCount + 1)
                             ELSE extractOptions.customId
           q == [req[r] EXCEPT !.file = file, !.extractOptions = extractOptions,
                               !.extractionId = extractionId]
       IN  /\ uuidCount' = IF NeedsUuid(extractOptions) THEN uuidCount + 1 ELSE uuidCount
           /\ req' = [req EXCEPT ![r] =
                IF ~validateReceiptFile(file)
                  THEN Throw(q, ValidateReceiptFileError(file))
                ELSE IF extractOptions.saveImage # Bool(FALSE)
                  THEN [q EXCEPT !.pc = "saveImage", !.events = @ \o <<"image_start">>]
                ELSE [q EXCEPT !.pc = "gateway", !.attempt = 1]]
    /\ UNCHANGED <<env, call, Database, ImageStore>>

(***************************************************************************)
(* StorageService.saveImage                                                *)
(***************************************************************************)
\* upload.allowedMimeTypes of the configuration
storageAllowedMimeTypes == {"image/jpeg", "image/jpg", "image/png"}

\* StorageService.validateFile accepts the file
storageValidateFile(file) ==
    /\ file # Undef
    /\ file.size <= maxSizeInBytes
    /\ file.mimetype \in storageAllowedMimeTypes

\* StorageService.getFileExtension
storageGetFileExtension(filename) ==
    IF Len(filename) > 1 THEN filename[Len(filename)] ELSE ".jpg"

\* variant: the image store names the file by an id of its own
FileName_OwnUuid(file, customId) ==
    <<"uuid-9", storageGetFileExtension(file.originalname)>>

\* `${fileId}${fileExtension}`
FileName(file, customId) == <<customId.v, storageGetFileExtension(file.originalname)>>

\* variant: an upload does not replace an object of the same name
Put_KeepsExisting(store, name, value) ==
    [n \in DOMAIN store \cup {name} |-> IF n \in DOMAIN store THEN store[n] ELSE value]

Put(store, name, value) ==
    [n \in DOMAIN store \cup {name} |-> IF n = name THEN value ELSE store[n]]

\* variant: a failed image save ends the request
AfterImage_Propagates(q, imageUrl) ==
    IF imageUrl = Undef
      THEN Throw([q EXCEPT !.imageSave = "failed", !.events = @ \o <<"image_end">>],
                 Err("BadRequestException", <<"Failed to save image">>))
      ELSE [q EXCEPT !.pc = "gateway", !.attempt = 1, !.imageUrl = imageUrl,
                     !.imageSave = "ok", !.events = @ \o <<"image_end">>]

\* the request goes on to the first model call, with or without an image url
AfterImage(q, imageUrl) ==
    [q EXCEPT !.pc = "gateway", !.attempt = 1, !.imageUrl = imageUrl,
              !.imageSave = IF imageUrl = Undef THEN "failed" ELSE "ok",
              !.events = @ \o <<"image_end">>]

\* the upload to the Supabase bucket succeeds (upsert: an object of that
\* name is replaced); saveImage returns the public url
SaveImageSupabase(r) ==
    /\ req[r].pc = "saveImage"
    /\ storageValidateFile(req[r].file)
    /\ LET fileName == FileName(req[r].file, req[r].extractionId)
       IN  /\ bucket' = Put(bucket, fileName, r)
           /\ req' = [req EXCEPT ![r] =
                AfterImage(@, Text(<<"https://supabase/receipts/">> \o fileName))]
    /\ UNCHANGED <<env, call, uuidCount, Database, uploads>>

\* the upload fails and the local write succeeds
SaveImageLocal(r) ==
    /\ req[r].pc = "saveImage"
    /\ storageValidateFile(req[r].file)
    /\ LET fileName == FileName(req[r].file, req[r].extractionId)
       IN  /\ uploads' = Put(uploads, fileName, r)
           /\ req' = [req EXCEPT ![r] =
                AfterImage(@, Text(<<"/storage/images/">> \o fileName))]
    /\ UNCHANGED <<env, call, uuidCount, Database, bucket>>

\* saveImage throws (validateFile rejects the file, or both stores fail);
\* extractReceiptData logs the error and continues
SaveImageFails(r) ==
    /\ req[r].pc = "saveImage"
    /\ req' = [req EXCEPT ![r] = AfterImage(@, Undef)]
    /\ UNCHANGED <<env, call, uuidCount, Database, ImageStore>>

(***************************************************************************)
(* AiService.extractReceiptData: one attempt of the retry loop             *)
(***************************************************************************)
aiModel == "gemini-2.0-flash"

\* the try block of one attempt, given what the gateway call came back
\* with: the final data, or the error the catch block receives
AttemptResult(outcome) ==
    IF outcome.kind = "throws" THEN Fail(outcome.error)
    ELSE IF outcome.kind = "nocontent" \/ outcome.content = <<>>
      THEN Fail(Err("Error", <<"No response content from AI model">>))
    ELSE LET parsed == parseAndValidateResponse(outcome.content)
         IN  IF parsed.ok
               THEN Ok([parsed.data EXCEPT !.extraction_metadata =
                          Obj([ai_model |-> aiModel,
                               warnings |-> generateWarnings(parsed.data)])])
               ELSE parsed

\* variant: the catch block has no test for NOT_A_RECEIPT
IsNotAReceipt_Never(error) == FALSE

\* if (error.message?.startsWith('NOT_A_RECEIPT:')) throw error
IsNotAReceipt(error) == StartsWithNotAReceipt(error.msg)

\* variant: one attempt more
RetriesLeft_OneMore(attempt) == attempt <= maxRetries

\* variant: one attempt less
RetriesLeft_GivesUpEarly(attempt) == attempt < maxRetries - 1

\* if (attempt < this.maxRetries) await this.delay(...)
RetriesLeft(attempt) == attempt < maxRetries

\* variant: the same delay after every attempt
BackoffDelay_Constant(attempt) == retryDelay

\* this.retryDelay * attempt
BackoffDelay(attempt) == retryDelay * attempt

\* the BadRequestException thrown after the loop
ExhaustedError(lastError) ==
    Err("BadRequestException",
        <<"Failed to extract receipt data after 3 attempts: ">> \o lastError.msg)

\* the gateway's text decodes to a record with is_receipt = false
DecodesToNotReceipt(outcome) ==
    /\ outcome.kind = "content"
    /\ \E i \in 1..Len(outcome.content) :
          /\ outcome.content[i].t = "object"
          /\ outcome.content[i].v.is_receipt = Bool(FALSE)

\* the history of an attempt: one more gateway call, and how it ended
Called(q, outcome, result) ==
    [q EXCEPT !.calls = @ + 1,
              !.lastResult = result,
              !.lastError = IF result.ok THEN Undef ELSE result.error,
              !.notReceiptSeen = DecodesToNotReceipt(outcome),
              !.failures = IF result.ok \/ IsNotAReceipt(result.error)
                             THEN @ ELSE @ + 1,
              !.events = @ \o <<"gateway_call">>]

(***************************************************************************)
(* ReceiptsService.extractReceiptData after the orchestrator returned      *)
(***************************************************************************)
\* plainToInstance(ReceiptItemResponseDto, item)
ItemResponse(item) ==
    [item_name |-> item.item_name, item_cost |-> ToFixed2(Num(item.item_cost)).v,
     quantity |-> item.quantity]

\* plainToInstance of the items, in their order
RECURSIVE ItemResponses(_)
ItemResponses(items) ==
    IF items = <<>> THEN <<>>
    ELSE <<ItemResponse(Head(items))>> \o ItemResponses(Tail(items))

\* plainToInstance(ReceiptResponseDto, responseData, excludeExtraneousValues)
\* with the @Transform of each exposed property; TaxDetailsResponseDto
\* exposes additional_taxes (and the rate and type texts), not tax_inclusive
BuildResponse(status, extractionId, data, imageUrl, extractOptions, allWarnings) ==
    [status |-> status,
     extraction_id |-> extractionId,
     date |-> data.date,
     currency |-> data.currency,
     vendor_name |-> data.vendor_name,
     receipt_items |-> ItemResponses(data.receipt_items.v),
     subtotal |-> IF Truthy(data.subtotal) THEN ToFixed2(ToNumber(data.subtotal)) ELSE Undef,
     tax |-> ToFixed2(ToNumber(data.tax)),
     tax_details |-> IF data.tax_details = Undef THEN Undef
                     ELSE Obj([additional_taxes |-> data.tax_details.v.additional_taxes]),
     total |-> ToFixed2(ToNumber(data.total)),
     payment_method |-> data.payment_method,
     receipt_number |-> data.receipt_number,
     confidence_score |-> IF Truthy(data.confidence_score)
                            THEN ToFixed2(ToNumber(data.confidence_score)) ELSE Undef,
     image_url |-> imageUrl,
     extraction_metadata |->
        IF Truthy(extractOptions.includeMetadata)
          THEN Obj([ai_model |-> OrElse(Str(data.extraction_metadata.v.ai_model),
                                        Str(aiModel)).v,
                    warnings |-> allWarnings])
          ELSE Undef]

\* the saveData object handed to DatabaseService.saveReceipt
BuildSaveData(status, extractionId, data, imageUrl, extractOptions, allWarnings) ==
    [extraction_id |-> extractionId,
     date |-> data.date,
     currency |-> OrElse(data.currency, Str("USD")),
     vendor_name |-> OrElse(data.vendor_name, Str("Unknown")),
     subtotal |-> data.subtotal,
     tax |-> OrElse(data.tax, Num(0)),
     total |-> OrElse(data.total, Num(0)),
     payment_method |-> data.payment_method,
     receipt_number |-> data.receipt_number,
     confidence_score |-> data.confidence_score,
     image_url |-> imageUrl,
     status |-> status,
     receipt_items |-> data.receipt_items.v,
     extraction_metadata |->
        IF Truthy(extractOptions.includeMetadata)
          THEN Obj([ai_model |-> OrElse(Str(data.extraction_metadata.v.ai_model),
                                        Str(aiModel)).v,
                    warnings |-> allWarnings])
          ELSE Undef]

\* from the orchestrator's result to the start of the database save: the
\* warnings are merged, the status determined, the response assembled and
\* the save data built
Assemble(q, extractedData) ==
    LET consistencyWarnings == validateExtractionConsistency(extractedData)
        allWarnings == extractedData.extraction_metadata.v.warnings \o consistencyWarnings
        status == determineExtractionStatus(extractedData, allWarnings)
    IN  [q EXCEPT
           !.pc = "insertReceipt",
           !.extractedData = extractedData,
           !.allWarnings = allWarnings,
           !.status = status,
           !.response = BuildResponse(status, q.extractionId, extractedData, q.imageUrl,
                                      q.extractOptions, allWarnings),
           !.saveData = BuildSaveData(status, q.extractionId, extractedData, q.imageUrl,
                                      q.extractOptions, allWarnings),
           !.events = @ \o <<"response_assembled", "db_start">>]

\* the attempt succeeds: the orchestrator returns and the use case goes on
\* to the database save
AttemptSucceeds(r, outcome) ==
    /\ req[r].pc = "gateway"
    /\ \E result \in {AttemptResult(outcome)} :
         /\ result.ok
         /\ req' = [req EXCEPT ![r] =
              Assemble([Called(@, outcome, result) EXCEPT
                          !.decoded = CleanContent(outcome.content)[1]],
                       result.data)]
    /\ UNCHANGED <<env, call, uuidCount, Database, ImageStore>>

\* the attempt fails with NOT_A_RECEIPT: thrown at once, through the use
\* case's catch block
AttemptNotAReceipt(r, outcome) ==
    /\ req[r].pc = "gateway"
    /\ \E result \in {AttemptResult(outcome)} :
         /\ ~result.ok
         /\ IsNotAReceipt(result.error)
         /\ req' = [req EXCEPT ![r] = Throw(Called(@, outcome, result), result.error)]
    /\ UNCHANGED <<env, call, uuidCount, Database, ImageStore>>

\* the attempt fails and attempts are left: the backoff delay starts
AttemptRetry(r, outcome) ==
    /\ req[r].pc = "gateway"
    /\ RetriesLeft(req[r].attempt)
    /\ \E result \in {AttemptResult(outcome)} :
         /\ ~result.ok
         /\ ~IsNotAReceipt(result.error)
         /\ req' = [req EXCEPT ![r] =
              [Called(@, outcome, result) EXCEPT
                 !.pc = "delay",
                 !.delays = @ \o <<BackoffDelay(req[r].attempt)>>,
                 !.events = @ \o <<"delay">>]]
    /\ UNCHANGED <<env, call, uuidCount, Database, ImageStore>>

\* the backoff delay is over: next attempt
DelayOver(r) ==
    /\ req[r].pc = "delay"
    /\ req' = [req EXCEPT ![r].pc = "gateway", ![r].attempt = @ + 1]
    /\ UNCHANGED <<env, call, uuidCount, Database, ImageStore>>

\* the last attempt fails: the loop ends and the terminal failure is thrown
AttemptExhausted(r, outcome) ==
    /\ req[r].pc = "gateway"
    /\ ~RetriesLeft(req[r].attempt)
    /\ \E result \in {AttemptResult(outcome)} :
         /\ ~result.ok
         /\ ~IsNotAReceipt(result.error)
         /\ req' = [req EXCEPT ![r] =
              Throw(Called(@, outcome, result), ExhaustedError(result.error))]
    /\ UNCHANGED <<env, call, uuidCount, Database, ImageStore>>

(***************************************************************************)
(* DatabaseService.saveReceipt                                             *)
(***************************************************************************)
\* the row saveReceipt inserts into receipts
ReceiptRow(id, data) ==
    [id |-> id,
     extraction_id |-> data.extraction_id,
     date |-> OrElse(data.date, Null),
     currency |-> data.currency,
     vendor_name |-> data.vendor_name,
     subtotal |-> OrElse(data.subtotal, Null),
     tax |-> data.tax,
     total |-> data.total,
     payment_method |-> OrElse(data.payment_method, Null),
     receipt_number |-> OrElse(data.receipt_number, Null),
     confidence_score |-> OrElse(data.confidence_score, Null),
     image_url |-> OrElse(data.image_url, Null),
     status |-> data.status]

\* the rows saveReceipt inserts into receipt_items, in the order of the items
ItemRows(receiptId, items) ==
    { [receipt_id |-> receiptId,
       position |-> i,
       item_name |-> items[i].item_name,
       item_cost |-> items[i].item_cost,
       quantity |-> OrElse(items[i].quantity, Num(1)),
       original_name |-> Null] : i \in 1..Len(items) }

\* extraction_id VARCHAR NOT NULL UNIQUE
UniqueViolation(extractionId) == \E row \in receipts : row.extraction_id = extractionId

\* variant: the error of the save reaches the outer catch block
Return_Rethrows(q, dbError) ==
    IF dbError = ""
      THEN [q EXCEPT !.pc = "done", !.returned = q.response, !.dbError = dbError,
                     !.events = @ \o <<"db_end", "return">>]
      ELSE Throw([q EXCEPT !.dbError = dbError, !.events = @ \o <<"db_end">>],
                 Err("Error", <<"Database connection failed">>))

\* variant: a failed save downgrades the status of the response
Return_Downgrades(q, dbError) ==
    [q EXCEPT !.pc = "done",
              !.returned = IF dbError = "" THEN q.response
                           ELSE [q.response EXCEPT !.status = "partial"],
              !.dbError = dbError,
              !.events = @ \o <<"db_end", "return">>]

\* the use case's catch (dbError) block and its return statement: whatever
\* the save did, the response assembled before it is returned
Return(q, dbError) ==
    [q EXCEPT !.pc = "done", !.returned = q.response, !.dbError = dbError,
              !.events = @ \o <<"db_end", "return">>]

\* insert into receipts succeeds
InsertReceipt(r) ==
    /\ req[r].pc = "insertReceipt"
    /\ ~UniqueViolation(req[r].saveData.extraction_id)
    /\ rowCount' = rowCount + 1
    /\ receipts' = receipts \cup {ReceiptRow(rowCount + 1, req[r].saveData)}
    /\ req' = [req EXCEPT ![r].pc = "insertItems", ![r].receiptId = rowCount + 1]
    /\ UNCHANGED <<env, call, uuidCount, receipt_items, extraction_metadata, ImageStore>>

\* insert into receipts fails (constraint violation, connection error):
\* saveReceipt throws, the use case swallows the error
InsertReceiptFails(r) ==
    /\ req[r].pc = "insertReceipt"
    /\ req' = [req EXCEPT ![r] = Return(@, "receipts")]
    /\ UNCHANGED <<env, call, uuidCount, Database, ImageStore>>

\* insert into receipt_items succeeds
InsertItems(r) ==
    /\ req[r].pc = "insertItems"
    /\ receipt_items' = receipt_items
                          \cup ItemRows(req[r].receiptId, req[r].saveData.receipt_items)
    /\ req' = [req EXCEPT ![r] =
         IF req[r].saveData.extraction_metadata # Undef
           THEN [@ EXCEPT !.pc = "insertMetadata"]
           ELSE Return(@, "")]
    /\ UNCHANGED <<env, call, uuidCount, receipts, extraction_metadata, rowCount, ImageStore>>

\* insert into receipt_items fails: the rollback delete is issued
InsertItemsFails(r) ==
    /\ req[r].pc = "insertItems"
    /\ req' = [req EXCEPT ![r].pc = "rollback"]
    /\ UNCHANGED <<env, call, uuidCount, Database, ImageStore>>

\* the rollback delete removes the receipts row (ON DELETE CASCADE removes
\* its children); saveReceipt throws, the use case swallows the error
Rollback(r) ==
    /\ req[r].pc = "rollback"
    /\ receipts' = { row \in receipts : row.id # req[r].receiptId }
    /\ receipt_items' = { row \in receipt_items : row.receipt_id # req[r].receiptId }
    /\ extraction_metadata' =
         { row \in extraction_metadata : row.receipt_id # req[r].receiptId }
    /\ req' = [req EXCEPT ![r] = Return(@, "receipt_items")]
    /\ UNCHANGED <<env, call, uuidCount, rowCount, ImageStore>>

\* the rollback delete itself fails: its result is not looked at, the row
\* stays; saveReceipt throws, the use case swallows the error
RollbackFails(r) ==
    /\ req[r].pc = "rollback"
    /\ req' = [req EXCEPT ![r] = Return(@, "receipt_items")]
    /\ UNCHANGED <<env, call, uuidCount, Database, ImageStore>>

\* insert into extraction_metadata succeeds; saveReceipt returns
InsertMetadata(r) ==
    /\ req[r].pc = "insertMetadata"
    /\ extraction_metadata' = extraction_metadata \cup
         { [receipt_id |-> req[r].receiptId,
            ai_model |-> req[r].saveData.extraction_metadata.v.ai_model,
            warnings |-> req[r].saveData.extraction_metadata.v.warnings] }
    /\ req' = [req EXCEPT ![r] = Return(@, "")]
    /\ UNCHANGED <<env, call, uuidCount, receipts, receipt_items, rowCount, ImageStore>>

\* insert into extraction_metadata fails: logged, saveReceipt still returns
InsertMetadataFails(r) ==
    /\ req[r].pc = "insertMetadata"
    /\ req' = [req EXCEPT ![r] = Return(@, "")]
    /\ UNCHANGED <<env, call, uuidCount, Database, ImageStore>>

\* what a call that only reads leaves as it is
Untouched == <<env, req, uuidCount, Database, ImageStore>>

(***************************************************************************)
(* DatabaseService reads and ReceiptsService.getExtractionById             *)
(***************************************************************************)
\* a DECIMAL(10,2) or DECIMAL(3,2) column: the number comes back with two
\* decimals, null as null
Decimal(x) == IF IsNum(x) THEN ToFixed2(x) ELSE x

\* the orders in which the embedded receipt_items rows of a receipt can
\* come back: the select has no ORDER BY, so any order
ItemRowOrders(receiptId) ==
    LET rows == { row \in receipt_items : row.receipt_id = receiptId }
    IN  { order \in [1..Cardinality(rows) -> rows] :
            \A i, j \in 1..Cardinality(rows) : order[i] = order[j] => i = j }

\* data.extraction_metadata?.[0]
FirstMetadata(receiptId) ==
    LET rows == { row \in extraction_metadata : row.receipt_id = receiptId }
    IN  IF rows = {} THEN Undef ELSE Obj(CHOOSE row \in rows : TRUE)

mapToSavedReceiptData(row, items, metadata) ==
    [id |-> row.id,
     extraction_id |-> row.extraction_id,
     date |-> row.date,
     currency |-> row.currency,
     vendor_name |-> row.vendor_name,
     subtotal |-> Decimal(row.subtotal),
     tax |-> Decimal(row.tax),
     total |-> Decimal(row.total),
     payment_method |-> row.payment_method,
     receipt_number |-> row.receipt_number,
     confidence_score |-> Decimal(row.confidence_score),
     image_url |-> row.image_url,
     status |-> row.status,
     receipt_items |-> [i \in 1..Len(items) |->
                          [item_name |-> items[i].item_name,
                           item_cost |-> Decimal(Num(items[i].item_cost)).v,
                           quantity |-> items[i].quantity,
                           original_name |-> items[i].original_name]],
     extraction_metadata |->
        IF metadata # Undef
          THEN Obj([ai_model |-> metadata.v.ai_model, warnings |-> metadata.v.warnings])
          ELSE Undef]

\* what getReceiptByExtractionId can return at this moment: null when no
\* single row has the extraction id, else the row with its items and
\* metadata
getReceiptByExtractionId(extractionId) ==
    LET rows == { row \in receipts : row.extraction_id = extractionId }
    IN  IF Cardinality(rows) # 1 THEN {Null}
        ELSE LET row == CHOOSE r \in rows : TRUE
             IN  { Obj(mapToSavedReceiptData(row, order, FirstMetadata(row.id))) :
                     order \in ItemRowOrders(row.id) }

\* what getAllReceipts can return at this moment: each result is the set
\* of the receipts rows, every row with its items and metadata
getAllReceipts ==
    LET readings == UNION { getReceiptByExtractionId(row.extraction_id) : row \in receipts }
    IN  { { reading[row] : row \in receipts } :
            reading \in { f \in [receipts -> readings] :
                            \A row \in receipts :
                              f[row] \in getReceiptByExtractionId(row.extraction_id) } }

\* getExtractionById: the saved receipt converted back to the response
\* format by plainToInstance, with the @Transform of each property;
\* responseData has no tax_details
RetrievedResponse(saved) ==
    [status |-> saved.status,
     extraction_id |-> saved.extraction_id,
     date |-> saved.date,
     currency |-> saved.currency,
     vendor_name |-> saved.vendor_name,
     receipt_items |-> [i \in 1..Len(saved.receipt_items) |->
                          [item_name |-> saved.receipt_items[i].item_name,
                           item_cost |-> ToFixed2(Num(saved.receipt_items[i].item_cost)).v,
                           quantity |-> saved.receipt_items[i].quantity]],
     subtotal |-> IF Truthy(saved.subtotal) THEN ToFixed2(ToNumber(saved.subtotal)) ELSE Undef,
     tax |-> ToFixed2(ToNumber(saved.tax)),
     tax_details |-> Undef,
     total |-> ToFixed2(ToNumber(saved.total)),
     payment_method |-> saved.payment_method,
     receipt_number |-> saved.receipt_number,
     confidence_score |-> IF Truthy(saved.confidence_score)
                            THEN ToFixed2(ToNumber(saved.confidence_score)) ELSE Undef,
     image_url |-> saved.image_url,
     extraction_metadata |-> saved.extraction_metadata]

getExtractionById(extractionId) ==
    { IF saved = Null THEN Null ELSE Obj(RetrievedResponse(saved.v)) :
        saved \in getReceiptByExtractionId(extractionId) }

(***************************************************************************)
(* Specifications                                                          *)
(***************************************************************************)
Next ==
    \/ \E r \in Reqs, file \in Files(env), extractOptions \in Options(env) :
          Start(r, file, extractOptions)
    \/ \E r \in Reqs : SaveImageSupabase(r)
    \/ \E r \in Reqs : SaveImageLocal(r)
    \/ \E r \in Reqs : SaveImageFails(r)
    \/ \E r \in Reqs, outcome \in Outcomes(env) : AttemptSucceeds(r, outcome)
    \/ \E r \in Reqs, outcome \in Outcomes(env) : AttemptNotAReceipt(r, outcome)
    \/ \E r \in Reqs, outcome \in Outcomes(env) : AttemptRetry(r, outcome)
    \/ \E r \in Reqs : DelayOver(r)
    \/ \E r \in Reqs, outcome \in Outcomes(env) : AttemptExhausted(r, outcome)
    \/ \E r \in Reqs : InsertReceipt(r)
    \/ \E r \in Reqs : InsertReceiptFails(r)
    \/ \E r \in Reqs : InsertItems(r)
    \/ \E r \in Reqs : InsertItemsFails(r)
    \/ \E r \in Reqs : Rollback(r)
    \/ \E r \in Reqs : RollbackFails(r)
    \/ \E r \in Reqs : InsertMetadata(r)
    \/ \E r \in Reqs : InsertMetadataFails(r)

\* a reader calls getReceiptByExtractionId with the extraction id of a
\* request, at any moment
GetReceiptByExtractionId(r) ==
    /\ req[r].extractionId # Undef
    /\ \E saved \in getReceiptByExtractionId(req[r].extractionId) :
         call' = [NoCall EXCEPT !.pc = "read", !.data = req[r].extractionId,
                                !.result = Arr(IF saved = Null THEN {} ELSE {saved.v})]
    /\ UNCHANGED Untouched

\* a reader calls getAllReceipts, at any moment
GetAllReceipts ==
    /\ \E saved \in getAllReceipts :
         call' = [NoCall EXCEPT !.pc = "read",
                                !.result = Arr({ receipt.v : receipt \in saved })]
    /\ UNCHANGED Untouched

NextWithReaders ==
    \/ Next
    \/ \E r \in Reqs : GetReceiptByExtractionId(r)
    \/ GetAllReceipts

InitWithReaders == InitState("readers", {"r1"})

\* one request, every input of the model
Spec == Init /\ [][Next]_vars

\* one request with the smaller input alphabets, and readers of the
\* record store at any moment
SpecWithReaders == InitWithReaders /\ [][NextWithReaders]_vars

\* two concurrent requests, the smaller input alphabets
SpecConcurrent == InitConcurrent /\ [][Next]_vars

(***************************************************************************)
(* The pure methods, each called on its own                                *)
(***************************************************************************)
\* longest warnings array handed to determineExtractionStatus
MaxWarnings == 3

RECURSIVE WarningsOfLength(_)
WarningsOfLength(n) ==
    IF n = 0 THEN <<>>
    ELSE WarningsOfLength(n - 1) \o << <<"Receipt date could not be determined">> >>

WarningLists == { WarningsOfLength(n) : n \in 0..MaxWarnings }

\* the fields determineExtractionStatus reads, each missing, empty or
\* falsy, and present; confidence from 0 to 1 around the 0.7 threshold
ClassifiedRecords ==
    [vendor_name : {Undef, Str(""), Str("Grocery Store Inc.")},
     total : {Undef, Null, Num(0), Num(7010)},
     receipt_items : {Undef, Arr(<<>>), Arr(Items(1))},
     confidence_score : {Undef, Num(0), Num(500), Num(690), Num(700), Num(950),
                         Num(1000)}]

TaxDetails ==
    {Undef}
    \cup { Obj([tax_inclusive |-> ti, additional_taxes |-> at]) :
             ti \in {Undef, Null, Bool(TRUE), Bool(FALSE)},
             at \in {Undef, Arr(<<>>), Arr(StateAndCityTax), Arr(GstOnly)} }

\* the records validateAndEnhanceData is called with: a grocery receipt
\* of two items (6.49 together) with the amounts, the tax details, the
\* currency, the vendor and the image quality varied
RepairedRecords ==
    { [GroceryReceipt EXCEPT !.subtotal = subtotal, !.tax = tax, !.total = total,
                             !.tax_details = taxDetails, !.currency = currency,
                             !.vendor_name = vendor, !.image_quality = quality] :
        subtotal \in {Undef, Num(0), Num(6490)},
        tax \in {Undef, Null, Str("N/A"), Num(0), Num(520)},
        total \in {Null, Num(7010), Num(7500)},
        taxDetails \in TaxDetails,
        currency \in {Str("USD"), Str("EUR"), Str("XYZ")},
        vendor \in {Str("Grocery Store Inc."), Str("Sydney Cafe")},
        quality \in {Undef, UnclearImage} }

\* the records whose currency validateAndEnhanceData resolves: the raw
\* currency missing, null, supported, in lower case and unknown, the vendor
\* missing, empty, without and with a keyword of inferCurrency
CurrencyRecords ==
    { [GroceryReceipt EXCEPT !.currency = currency, !.vendor_name = vendor] :
        currency \in {Undef, Null, Str("USD"), Str("HKD"), Str("usd"), Str("eur"),
                      Str("XYZ")},
        vendor \in {Undef, Str(""), Str("Grocery Store Inc."), Str("Sydney Cafe"),
                    Str("Swiss Bakery"), Str("Eurospar UK")} }

\* the records validateExtractionConsistency is called with: the amounts
\* missing, zero and present, the total exact, 0.004 off and 0.02 off
ConsistencyRecords ==
    { [GroceryReceipt EXCEPT !.subtotal = subtotal, !.tax = tax, !.total = total,
                             !.tax_details = taxDetails, !.receipt_items = items] :
        subtotal \in {Undef, Num(0), Num(6490), Num(7010)},
        tax \in {Undef, Num(0), Num(520)},
        total \in {Undef, Num(0), Num(6490), Num(7010), Num(7014), Num(7030)},
        taxDetails \in {Undef,
                        Obj([tax_inclusive |-> Undef, additional_taxes |-> Undef]),
                        Obj([tax_inclusive |-> Bool(TRUE), additional_taxes |-> Undef]),
                        Obj([tax_inclusive |-> Bool(FALSE), additional_taxes |-> Undef])},
        items \in {Arr(<<>>), Arr(Items(1)), Arr(Items(2))} }

ClearImage == Obj([is_clear |-> Bool(TRUE), issues |-> Arr(<<>>)])

\* the decoded records parseAndValidateResponse is called with: the fields
\* it tests missing, empty or of the wrong type, and as they should be
ParsedRecords ==
    { [GroceryReceipt EXCEPT !.is_receipt = isReceipt, !.vendor_name = vendor,
                             !.receipt_items = items, !.total = total,
                             !.image_quality = quality] :
        isReceipt \in {Undef, Bool(TRUE), Bool(FALSE)},
        vendor \in {Undef, Str(""), Str("Grocery Store Inc.")},
        items \in {Undef, Arr(<<>>), Arr(Items(1))},
        total \in {Undef, Null, Num(-1000), Num(0), Num(7010), Str("7.01")},
        quality \in {Undef, UnclearImage, ClearImage} }

\* the texts parseAndValidateResponse is called with: text that is no
\* JSON, the JSON null, a record bare and inside code fences
ParsedContents ==
    { <<Str("I cannot read this image")>>, <<Null>>,
      <<FenceJson, Str("I cannot read this image"), Fence>> }
    \cup { <<Obj(rec)>> : rec \in ParsedRecords }
    \cup { <<FenceJson, Obj(rec), Fence>> : rec \in ParsedRecords }

Calling(pc, data, warnings) == [NoCall EXCEPT !.pc = pc, !.data = data, !.warnings = warnings]

\* every call the pure methods are checked on
Calls ==
    { Calling("classify", data, warnings) :
        data \in ClassifiedRecords, warnings \in WarningLists }
    \cup { Calling("repair", data, <<>>) : data \in RepairedRecords \cup CurrencyRecords }
    \cup { Calling("validate", data, <<>>) : data \in ConsistencyRecords }
    \cup { Calling("parse", Arr(content), <<>>) : content \in ParsedContents }

InitPure ==
    /\ env = "pure"
    /\ req = [r \in Reqs |-> Off]
    /\ uuidCount = 0
    /\ receipts = {}
    /\ receipt_items = {}
    /\ extraction_metadata = {}
    /\ rowCount = 0
    /\ bucket = [name \in {} |-> Undef]
    /\ uploads = [name \in {} |-> Undef]
    /\ call \in Calls

\* determineExtractionStatus(data, warnings)
Classify ==
    /\ call.pc = "classify"
    /\ call' = [call EXCEPT !.pc = "classified",
                            !.result = Str(determineExtractionStatus(call.data,
                                                                     call.warnings))]
    /\ UNCHANGED Untouched

\* validateAndEnhanceData(data)
Repair ==
    /\ call.pc = "repair"
    /\ call' = [call EXCEPT !.pc = "repaired",
                            !.result = Obj(validateAndEnhanceData(call.data))]
    /\ UNCHANGED Untouched

\* validateAndEnhanceData called again, with the record it returned
RepairAgain ==
    /\ call.pc = "repaired"
    /\ call' = [call EXCEPT !.pc = "repaired again",
                            !.again = Obj(validateAndEnhanceData(call.result.v))]
    /\ UNCHANGED Untouched

\* validateExtractionConsistency(data)
Validate ==
    /\ call.pc = "validate"
    /\ call' = [call EXCEPT !.pc = "validated",
                            !.result = Arr(validateExtractionConsistency(call.data))]
    /\ UNCHANGED Untouched

\* parseAndValidateResponse(content): the record it returns or the error
\* it throws
Parse ==
    /\ call.pc = "parse"
    /\ call' = [call EXCEPT !.pc = "parsed",
                            !.result = Obj(parseAndValidateResponse(call.data.v))]
    /\ UNCHANGED Untouched

NextPure ==
    \/ Classify
    \/ Repair
    \/ RepairAgain
    \/ Validate
    \/ Parse

\* one call of one pure method, every argument of the model
SpecPure == InitPure /\ [][NextPure]_vars

(***************************************************************************)
(* Properties                                                              *)
(***************************************************************************)
\* the request has entered extractReceiptData
Started(r) == req[r].pc \notin {"off", "idle"}

\* the orchestrator has returned a record and the use case is past it
Succeeded(r) ==
    req[r].pc \in {"insertReceipt", "insertItems", "rollback", "insertMetadata", "done"}

\* the Record Store save has started and has not ended
SavePending(r) ==
    req[r].pc \in {"insertReceipt", "insertItems", "rollback", "insertMetadata"}

Occurs(events, e) == \E i \in DOMAIN events : events[i] = e

\* every a of the events comes before every b
Before(events, a, b) ==
    \A i, j \in DOMAIN events : (events[i] = a /\ events[j] = b) => i < j

\* C1: a request makes at most 3 gateway calls; once 3 attempts have failed
\* with errors other than NOT_A_RECEIPT, exactly 3 calls were made and the
\* request has ended with a BadRequestException whose message is the
\* terminal text followed by the message of the third attempt's error.
C1_AtMostThreeCalls ==
    \A r \in Reqs :
        /\ req[r].calls <= 3
        /\ req[r].failures = 3 =>
             /\ req[r].calls = 3
             /\ req[r].pc = "error"
             /\ req[r].caught.cls = "BadRequestException"
             /\ req[r].caught.msg =
                  <<"Failed to extract receipt data after 3 attempts: ">>
                    \o req[r].lastResult.error.msg

C1_Witness ==
    \E r \in Reqs :
        /\ req[r].failures = 3
        /\ req[r].calls = 3
        /\ req[r].pc = "error"
        /\ req[r].caught.msg =
             <<"Failed to extract receipt data after 3 attempts: ",
               "Failed to parse AI response: ", "Vendor name is required">>

\* C2: once the latest model output decoded to is_receipt = false, whatever
\* its other fields and whatever the attempt, the request has ended with
\* NOT_A_RECEIPT, and that attempt's gateway call was the last thing done
\* before the throw: no delay follows it and no further call.
C2_NotAReceiptAtOnce ==
    \A r \in Reqs :
        req[r].notReceiptSeen =>
            /\ req[r].pc = "error"
            /\ req[r].thrown.error_code = "NOT_A_RECEIPT"
            /\ req[r].calls = req[r].attempt
            /\ Len(req[r].delays) = req[r].calls - 1
            /\ SubSeq(req[r].events, Len(req[r].events) - 1, Len(req[r].events))
                 = <<"gateway_call", "throw">>

C2_Witness ==
    \E r \in Reqs :
        /\ req[r].notReceiptSeen
        /\ req[r].calls = 3
        /\ req[r].pc = "error"
        /\ req[r].thrown.error_code = "NOT_A_RECEIPT"

\* C3: a failure of attempt n < 3 that is not NOT_A_RECEIPT never ends the
\* request: the delay follows and then attempt n+1; and when an attempt
\* succeeds, every earlier attempt has failed and no later one is made, so
\* the gateway was called exactly as many times as the attempt's number.
C3_RetryUntilSuccess ==
    \A r \in Reqs :
        /\ req[r].pc = "delay" =>
             /\ req[r].attempt = req[r].failures
             /\ req[r].attempt < 3
             /\ ENABLED DelayOver(r)
        /\ req[r].pc = "gateway" =>
             /\ req[r].attempt = req[r].failures + 1
             /\ req[r].calls = req[r].failures
        /\ ( /\ req[r].lastResult # Undef
             /\ ~req[r].lastResult.ok
             /\ ~StartsWithNotAReceipt(req[r].lastResult.error.msg)
             /\ req[r].failures < 3 ) => req[r].pc \in {"delay", "gateway"}
        /\ Succeeded(r) =>
             /\ req[r].lastResult.ok
             /\ req[r].calls = req[r].attempt
             /\ req[r].calls = req[r].failures + 1
             /\ req[r].extractedData = req[r].lastResult.data

C3_Witness ==
    \E r \in Reqs :
        /\ req[r].pc = "done"
        /\ req[r].failures = 2
        /\ req[r].calls = 3
        /\ req[r].returned.status = "success"

FileRejected(file) ==
    \/ file.mimetype \notin {"image/jpeg", "image/jpg", "image/png", "image/webp"}
    \/ ToLowerCase(getFileExtension(file.originalname))
         \notin {".jpg", ".jpeg", ".png", ".webp"}
    \/ file.size = 0
    \/ file.size > 10 * 1024 * 1024

\* C5: a request whose file is rejected for its MIME type, its extension or
\* its size has ended with error_code VALIDATION_ERROR, and has made no
\* Image Store call, no gateway call and no Record Store call.
C5_RejectedFileTouchesNothing ==
    \A r \in Reqs :
        (Started(r) /\ req[r].file # Undef /\ FileRejected(req[r].file)) =>
            /\ req[r].pc = "error"
            /\ req[r].thrown.error_code = "VALIDATION_ERROR"
            /\ req[r].events = <<"throw">>
            /\ req[r].calls = 0
            /\ req[r].imageSave = "none"
            /\ DOMAIN bucket = {} /\ DOMAIN uploads = {}
            /\ receipts = {} /\ receipt_items = {} /\ extraction_metadata = {}

C5_Witness ==
    \E r \in Reqs :
        /\ req[r].pc = "error"
        /\ req[r].file # Undef
        /\ req[r].file.mimetype = "image/jpeg"
        /\ req[r].file.size = 10 * 1024 * 1024
        /\ getFileExtension(req[r].file.originalname) = ".pdf"
        /\ req[r].thrown.error_code = "VALIDATION_ERROR"

\* C6: when the image save was asked for and has thrown, the request has
\* not failed for it: it goes on to the orchestrator, and a response it
\* assembles has the status determined from the orchestrator's record and
\* the warnings alone, and no image_url.
C6_ImageFailureSwallowed ==
    \A r \in Reqs :
        req[r].imageSave = "failed" =>
            /\ req[r].extractOptions.saveImage # Bool(FALSE)
            /\ req[r].pc = "gateway" \/ req[r].calls >= 1
            /\ req[r].imageUrl = Undef
            /\ Succeeded(r) =>
                 /\ req[r].response.image_url = Undef
                 /\ req[r].response.status =
                      determineExtractionStatus(req[r].lastResult.data, req[r].allWarnings)
            /\ req[r].pc = "done" => req[r].returned = req[r].response

C6_Witness ==
    \E r \in Reqs :
        /\ req[r].imageSave = "failed"
        /\ req[r].pc = "done"
        /\ req[r].returned.status = "success"
        /\ req[r].returned.image_url = Undef

\* C7: once the save has started the request never ends in an error, and
\* the response returned is the one assembled before the save, a function
\* of the id, the options, the image url and the orchestrator's record:
\* the same whether the save succeeded or threw, and wherever it threw.
C7_ResponseIgnoresSave ==
    \A r \in Reqs :
        /\ Occurs(req[r].events, "db_start") => req[r].pc # "error"
        /\ req[r].pc = "done" =>
             /\ req[r].returned = req[r].response
             /\ req[r].returned =
                  BuildResponse(
                     determineExtractionStatus(req[r].lastResult.data, req[r].allWarnings),
                     req[r].extractionId, req[r].lastResult.data, req[r].imageUrl,
                     req[r].extractOptions, req[r].allWarnings)

C7_Witness ==
    \E r \in Reqs :
        /\ req[r].pc = "done"
        /\ req[r].dbError = "receipts"
        /\ receipts = {}
        /\ req[r].returned.status = "success"
        /\ req[r].returned.total = Num(7010)

\* the order of the side effects of one request, and the response left as
\* it was assembled
SideEffectsOrdered(r) ==
    /\ Before(req[r].events, "image_start", "image_end")
    /\ Before(req[r].events, "image_end", "gateway_call")
    /\ (req[r].calls >= 1 /\ req[r].extractOptions.saveImage # Bool(FALSE))
          => Occurs(req[r].events, "image_end")
    /\ Before(req[r].events, "gateway_call", "response_assembled")
    /\ Before(req[r].events, "response_assembled", "db_start")
    /\ Occurs(req[r].events, "db_start") => Occurs(req[r].events, "response_assembled")
    /\ req[r].returned # Undef => req[r].returned = req[r].response

\* C8 as stated: the side effects are ordered, the response is not
\* mutated, and the save does not block the response: while the save is
\* pending the caller already has the response.
C8_SaveNeverBlocks ==
    \A r \in Reqs :
        /\ SideEffectsOrdered(r)
        /\ SavePending(r) => req[r].returned = req[r].response

\* C8: the image save attempt ends before the first gateway call, the save
\* starts only after the response is assembled and does not change it, and
\* the response is returned only when the save attempt has ended: while the
\* save is pending the caller has no response yet.
C8_SaveAwaited ==
    \A r \in Reqs :
        /\ SideEffectsOrdered(r)
        /\ SavePending(r) => (req[r].response # Undef /\ req[r].returned = Undef)
        /\ Before(req[r].events, "db_end", "return")
        /\ Occurs(req[r].events, "return") => Occurs(req[r].events, "db_end")

C8_Witness ==
    \E r \in Reqs :
        /\ req[r].pc = "insertItems"
        /\ req[r].imageSave = "ok"
        /\ req[r].response # Undef
        /\ req[r].returned = Undef
        /\ \E row \in receipts : row.id = req[r].receiptId

\* C9: from its first step on a request has one extraction_id, the
\* customId when one is supplied and a generated UUID otherwise, and every
\* copy made of it is that id: the name of the stored image, the response,
\* the save data and the row saved, the error envelope.
C9_OneExtractionId ==
    \A r \in Reqs :
        Started(r) =>
            /\ req[r].extractionId =
                 IF Truthy(req[r].extractOptions.customId)
                   THEN req[r].extractOptions.customId
                   ELSE req[r].extractionId
            /\ ~Truthy(req[r].extractOptions.customId) =>
                 \E n \in 1..uuidCount : req[r].extractionId = uuidv4(n)
            /\ req[r].imageSave = "ok" =>
                 /\ req[r].imageUrl.v[2] = req[r].extractionId.v
                 /\ \E name \in DOMAIN bucket \cup DOMAIN uploads :
                       name[1] = req[r].extractionId.v
            /\ req[r].response # Undef =>
                 req[r].response.extraction_id = req[r].extractionId
            /\ req[r].returned # Undef =>
                 req[r].returned.extraction_id = req[r].extractionId
            /\ req[r].saveData # Undef =>
                 req[r].saveData.extraction_id = req[r].extractionId
            /\ \A row \in receipts :
                 row.id = req[r].receiptId => row.extraction_id = req[r].extractionId
            /\ req[r].thrown # Undef =>
                 req[r].thrown.extraction_id = req[r].extractionId

C9_Witness ==
    \E r \in Reqs :
        /\ req[r].pc = "done"
        /\ req[r].extractOptions.customId = Undef
        /\ req[r].extractionId = uuidv4(1)
        /\ req[r].imageSave = "ok"
        /\ req[r].returned.extraction_id = uuidv4(1)
        /\ \E row \in receipts : row.extraction_id = uuidv4(1)

\* C10: two requests that have returned a record hold different
\* extraction_ids, and so do two rows of the receipts table.
C10_IdNeverReused ==
    /\ \A r1, r2 \in Reqs :
          (r1 # r2 /\ req[r1].returned # Undef /\ req[r2].returned # Undef)
             => req[r1].returned.extraction_id # req[r2].returned.extraction_id
    /\ \A row1, row2 \in receipts :
          row1 # row2 => row1.extraction_id # row2.extraction_id

\* determineExtractionStatus has returned
Classified == call.pc = "classified"

\* vendor_name is missing or empty, total is missing or falsy, or
\* receipt_items is missing or empty
CriticalFieldMissing(data) ==
    \/ data.vendor_name \in {Undef, Null, Str("")}
    \/ data.total \in {Undef, Null, NaN, Num(0), Str("")}
    \/ data.receipt_items \in {Undef, Null, Arr(<<>>)}

\* C11: determineExtractionStatus returns 'failed' for every record whose
\* vendor_name is missing or empty, whose total is missing or falsy, or
\* whose receipt_items is missing or empty, whatever the confidence_score
\* and however many warnings there are; the status is a function of the
\* record and the warnings alone.
C11_FailedWhenCriticalFieldMissing ==
    (Classified /\ CriticalFieldMissing(call.data)) => call.result = Str("failed")

\* a record that only lacks an amount in total (0), with the best
\* confidence and no warning, is classified failed
C11_Witness ==
    /\ Classified
    /\ call.data.vendor_name = Str("Grocery Store Inc.")
    /\ call.data.receipt_items = Arr(Items(1))
    /\ call.data.total = Num(0)
    /\ call.data.confidence_score = Num(1000)
    /\ call.warnings = <<>>
    /\ call.result = Str("failed")

\* C12: for every record that is not failed and carries a confidence in
\* [0, 1], determineExtractionStatus returns 'partial' exactly when there
\* are more than two warnings or the confidence is below 0.7, and
\* 'success' otherwise, also at confidence 0 and at exactly 0.7.
C12_PartialBelowThreshold ==
    (Classified /\ ~CriticalFieldMissing(call.data) /\ IsNum(call.data.confidence_score))
      => call.result = Str(IF Len(call.warnings) > 2 \/ call.data.confidence_score.v < 700
                             THEN "partial" ELSE "success")

\* validateAndEnhanceData has returned call.result for the record call.data
Repaired == call.pc \in {"repaired", "repaired again"}

\* image_quality.is_clear is false
Unclear(data) ==
    data.image_quality.t = "object" /\ data.image_quality.v.is_clear = Bool(FALSE)

\* an amount as a number of thousandths, 0 when it is missing
AmountOf(x) == IF IsNum(x) THEN x.v ELSE 0

Distance(a, b) == IF a >= b THEN a - b ELSE b - a

\* subtotal + tax of the returned record is more than 0.01 away from its total
Mismatch(data) ==
    Distance(AmountOf(data.subtotal) + AmountOf(data.tax), AmountOf(data.total)) > 10

\* tax is a number, or is null or missing
TaxIsAmount(data) == data.tax.t \in {"number", "null", "undefined"}

\* C13: the confidence_score validateAndEnhanceData assigns is one of 0.50,
\* 0.70, 0.80, 0.95: 0.50 for an unclear image with a null total, 0.70
\* for an unclear image with a total (also when subtotal + tax is the
\* total), otherwise 0.80 when subtotal + tax is more than 0.01 away from
\* the total and 0.95 when it is not (tax a number or absent).
C13_ConfidenceDecisionOrder ==
    Repaired =>
      /\ call.result.v.confidence_score \in {Num(500), Num(700), Num(800), Num(950)}
      /\ (Unclear(call.data) /\ call.data.total = Null)
           => call.result.v.confidence_score = Num(500)
      /\ (Unclear(call.data) /\ call.data.total # Null)
           => call.result.v.confidence_score = Num(700)
      /\ (~Unclear(call.data) /\ TaxIsAmount(call.data))
           => call.result.v.confidence_score =
                IF Mismatch(call.result.v) THEN Num(800) ELSE Num(950)

\* an unclear image whose amounts add up exactly gets 0.70
C13_Witness ==
    /\ Repaired
    /\ Unclear(call.data)
    /\ call.data.subtotal = Num(6490)
    /\ call.data.tax = Num(520)
    /\ call.data.total = Num(7010)
    /\ ~Mismatch(call.result.v)
    /\ call.result.v.confidence_score = Num(700)

\* the sum of the amounts of additional_taxes, an entry without amount
\* counting 0
RECURSIVE SumAmounts(_)
SumAmounts(taxes) ==
    IF taxes = <<>> THEN 0 ELSE AmountOf(Head(taxes).amount) + SumAmounts(Tail(taxes))

\* tax_details.additional_taxes of the record is a non-empty list
HasAdditionalTaxes(data) ==
    /\ data.tax_details.t = "object"
    /\ IsArr(data.tax_details.v.additional_taxes)
    /\ data.tax_details.v.additional_taxes.v # <<>>

\* C14: in every record validateAndEnhanceData returns with a non-empty
\* tax_details.additional_taxes, tax is within 0.01 of the sum of the
\* additional_taxes amounts, whatever the raw tax was (missing, null and
\* non-numeric included).
C14_TaxIsSumOfAdditionalTaxes ==
    (Repaired /\ HasAdditionalTaxes(call.result.v))
      => /\ IsNum(call.result.v.tax)
         /\ Distance(call.result.v.tax.v,
                     SumAmounts(call.result.v.tax_details.v.additional_taxes.v)) <= 10

\* the raw record carries no subtotal
NoRawSubtotal == call.data.subtotal = Undef

\* the returned record is tax-inclusive
TaxInclusive(data) == data.tax_details.v.tax_inclusive = Bool(TRUE)

\* the sum of item_cost x quantity over the items, a missing quantity
\* counting 1
RECURSIVE ItemsSum(_)
ItemsSum(items) ==
    IF items = <<>> THEN 0
    ELSE Head(items).item_cost * (IF IsNum(Head(items).quantity)
                                    THEN Head(items).quantity.v ELSE 1)
         + ItemsSum(Tail(items))

\* C15: when the raw record has no subtotal, the record
\* validateAndEnhanceData returns has one: on a tax-inclusive record it is
\* within 0.01 of total - tax of the returned record, also when that tax is
\* 0 or was recomputed from additional_taxes; on a tax-exclusive record it
\* is the sum of item_cost x quantity over the items.
C15_SubtotalDerived ==
    (Repaired /\ NoRawSubtotal)
      => IF TaxInclusive(call.result.v)
           THEN /\ IsNum(call.result.v.subtotal)
                /\ Distance(AmountOf(call.result.v.total) - AmountOf(call.result.v.tax),
                            call.result.v.subtotal.v) <= 10
           ELSE call.result.v.subtotal = Num(ItemsSum(call.result.v.receipt_items.v))

\* C16: a subtotal the raw record carries, any non-negative number with 0
\* included, is returned unchanged by validateAndEnhanceData in both tax
\* regimes.
C16_RawSubtotalKept ==
    (Repaired /\ IsNum(call.data.subtotal) /\ call.data.subtotal.v >= 0)
      => call.result.v.subtotal = call.data.subtotal

\* validateAndEnhanceData has been applied to the record it returned
RepairedAgain == call.pc = "repaired again"

\* C17: validateAndEnhanceData applied to a record it returned leaves
\* subtotal, tax and confidence_score as they are, also for a record made
\* from an unclear image with a null total.
C17_RepairIdempotent ==
    RepairedAgain
      => /\ call.again.v.tax_details.v.tax_inclusive
              = call.result.v.tax_details.v.tax_inclusive
         /\ call.again.v.subtotal = call.result.v.subtotal
         /\ call.again.v.tax = call.result.v.tax
         /\ call.again.v.confidence_score = call.result.v.confidence_score

\* tax_details.tax_inclusive as the raw record gives it: undefined when
\* tax_details is missing
RawTaxInclusive(data) ==
    IF data.tax_details.t = "object" THEN data.tax_details.v.tax_inclusive ELSE Undef

\* C18: after validateAndEnhanceData tax_details.tax_inclusive is a
\* boolean: an explicit true or false is kept, and when tax_details or
\* tax_inclusive is missing or tax_inclusive is null it is true exactly
\* when the currency of the returned record is EUR, GBP, CHF, AUD or NZD.
C18_TaxInclusiveResolved ==
    Repaired =>
      LET raw == RawTaxInclusive(call.data)
          resolved == call.result.v.tax_details.v.tax_inclusive
      IN  /\ resolved \in {Bool(TRUE), Bool(FALSE)}
          /\ raw \in {Bool(TRUE), Bool(FALSE)} => resolved = raw
          /\ raw \in {Undef, Null}
               => resolved = Bool(call.result.v.currency
                                    \in {Str("EUR"), Str("GBP"), Str("CHF"),
                                         Str("AUD"), Str("NZD")})

\* validateExtractionConsistency has returned the warnings call.result
Validated == call.pc = "validated"

\* the number of mathematical-consistency warnings among the warnings
MathWarningCount(warnings) ==
    Cardinality({ i \in 1..Len(warnings) :
                    warnings[i][1] \in {"Mathematical inconsistency",
                                        "Tax-inclusive receipt validation: Expected subtotal of"} })

\* subtotal, tax and total are all present
AmountsPresent(data) == IsNum(data.subtotal) /\ IsNum(data.tax) /\ IsNum(data.total)

\* tax_details.tax_inclusive of the record is true
MarkedInclusive(data) ==
    data.tax_details.t = "object" /\ data.tax_details.v.tax_inclusive = Bool(TRUE)

\* C19: for a tax-exclusive record (tax_inclusive not true) with subtotal,
\* tax and total present, zeros included, validateExtractionConsistency
\* emits no mathematical-consistency warning when subtotal + tax is within
\* 0.01 of total, and exactly one when it is further away.
C19_ExclusiveMathWarning ==
    (Validated /\ ~MarkedInclusive(call.data) /\ AmountsPresent(call.data))
      => MathWarningCount(call.result.v)
           = IF Distance(call.data.subtotal.v + call.data.tax.v, call.data.total.v) <= 10
               THEN 0 ELSE 1

\* a tax-exclusive record with tax 0 whose subtotal is 0.54 short of the
\* total gets one warning
C19_Witness ==
    /\ Validated
    /\ ~MarkedInclusive(call.data)
    /\ call.data.subtotal = Num(6490)
    /\ call.data.tax = Num(0)
    /\ call.data.total = Num(7030)
    /\ MathWarningCount(call.result.v) = 1

\* C20: for a tax-inclusive record (tax_inclusive = true) with subtotal,
\* tax and total present, validateExtractionConsistency emits no
\* mathematical warning when total - tax is within 0.01 of subtotal; when
\* it is further away it emits exactly one, unless the sum of item_cost x
\* quantity over the items is within 0.01 of total, and then none.
C20_InclusiveMathWarning ==
    (Validated /\ MarkedInclusive(call.data) /\ AmountsPresent(call.data))
      => MathWarningCount(call.result.v)
           = IF Distance(call.data.total.v - call.data.tax.v, call.data.subtotal.v) <= 10
               THEN 0
             ELSE IF Distance(ItemsSum(call.data.receipt_items.v), call.data.total.v) <= 10
               THEN 0
             ELSE 1

\* a tax-inclusive record whose subtotal is 0.52 above total - tax, and
\* whose items add up to the total, gets no warning
C20_Witness ==
    /\ Validated
    /\ MarkedInclusive(call.data)
    /\ call.data.subtotal = Num(6490)
    /\ call.data.tax = Num(520)
    /\ call.data.total = Num(6490)
    /\ call.data.receipt_items = Arr(Items(2))
    /\ MathWarningCount(call.result.v) = 0

\* parseAndValidateResponse has returned or thrown
Parsed == call.pc = "parsed"

\* what is left of the text without its code fences
Payload(content) == SelectSeq(content, LAMBDA tok : tok # Fence /\ tok # FenceJson)

\* the text decodes to a JSON object
Decodable(content) == Len(Payload(content)) = 1 /\ Payload(content)[1].t = "object"

\* a non-empty vendor_name, a non-empty receipt_items list, and a total
\* that is a non-negative number, or null when image_quality.is_clear is
\* false
Acceptable(data) ==
    /\ IsStr(data.vendor_name) /\ data.vendor_name.v # ""
    /\ IsArr(data.receipt_items) /\ data.receipt_items.v # <<>>
    /\ \/ IsNum(data.total) /\ data.total.v >= 0
       \/ data.total = Null /\ Unclear(data)

\* C21: parseAndValidateResponse returns a record only if the text decodes
\* to an object with a non-empty vendor_name, a non-empty receipt_items and
\* a total that is a non-negative number, or null on an unclear image;
\* every other decoded shape and every undecodable text ends in an error,
\* and an accepted record (not marked is_receipt = false) is returned.
C21_ParserAcceptsOnlyCompleteRecords ==
    Parsed =>
      LET content == call.data.v
          accepted == /\ Decodable(content)
                      /\ Acceptable(Payload(content)[1].v)
                      /\ Payload(content)[1].v.is_receipt # Bool(FALSE)
      IN  /\ call.result.v.ok <=> accepted
          /\ ~call.result.v.ok => "error" \in DOMAIN call.result.v

\* a record of an unclear image with a null total is returned
C21_Witness ==
    /\ Parsed
    /\ Decodable(call.data.v)
    /\ Payload(call.data.v)[1].v.total = Null
    /\ Unclear(Payload(call.data.v)[1].v)
    /\ call.result.v.ok

\* the orchestrator has given up after its last attempt and the use case
\* has thrown the error envelope
Exhausted(r) == req[r].pc = "error" /\ req[r].failures = maxRetries

\* C22: when the orchestrator fails after exhausting its retries, the
\* error_code of the envelope reflects what the last attempt failed with:
\* NO_ITEMS_FOUND for a decoded record without items,
\* AI_SERVICE_UNAVAILABLE for a network or timeout failure of the gateway,
\* AI_RESPONSE_ERROR for output that is no JSON.
C22_ErrorCodeReflectsCause ==
    \A r \in Reqs :
      Exhausted(r) =>
        LET cause == req[r].lastResult.error
            code == req[r].thrown.error_code
        IN  /\ cause.msg = <<"Failed to parse AI response: ",
                             "At least one receipt item is required">>
                 => code = "NO_ITEMS_FOUND"
            /\ cause \in { Err("Error", <<"Network error">>),
                           Err("Error", <<"network timeout at: https://generativelanguage.googleapis.com">>) }
                 => code = "AI_SERVICE_UNAVAILABLE"
            /\ (cause.cls = "Error" /\ Len(cause.msg) = 2
                  /\ cause.msg[2] = "Unexpected token N in JSON at position 0")
                 => code = "AI_RESPONSE_ERROR"

\* saveReceipt has thrown because the insert into receipt_items failed
ItemsInsertFailed(r) == req[r].pc = "done" /\ req[r].dbError = "receipt_items"

\* C23: whenever saveReceipt fails at the insert into receipt_items, the
\* receipts table holds no row of that extraction once saveReceipt has
\* thrown: the parent row inserted earlier in the call has been removed.
C23_NoOrphanedReceiptRow ==
    \A r \in Reqs :
      ItemsInsertFailed(r)
        => ~\E row \in receipts : row.id = req[r].receiptId

\* the twelve supported currency codes
SupportedCodes ==
    { Str(code) : code \in {"USD", "EUR", "GBP", "CAD", "AUD", "SGD", "CHF", "JPY",
                            "CNY", "INR", "NZD", "HKD"} }

\* the vendor names of the model that contain no keyword of inferCurrency
NoKeywordVendors == {Undef, Null, Str(""), Str("Grocery Store Inc.")}

\* C24: for every raw record, whatever its vendor_name (empty and missing
\* included) and its raw currency (any letter case), the currency of the
\* record validateAndEnhanceData returns is one of the twelve supported
\* codes; a supported raw code is kept, and the result is USD when the raw
\* currency is not supported and the vendor name matches no keyword.
C24_CurrencyResolved ==
    Repaired =>
      /\ call.result.v.currency \in SupportedCodes
      /\ call.data.currency \in SupportedCodes
           => call.result.v.currency = call.data.currency
      /\ (call.data.currency \notin SupportedCodes
            /\ call.data.vendor_name \in NoKeywordVendors)
           => call.result.v.currency = Str("USD")

\* a record without vendor_name and with the currency in lower case
\* comes back in USD
C24_Witness ==
    /\ Repaired
    /\ call.data.vendor_name = Undef
    /\ call.data.currency = Str("eur")
    /\ call.result.v.currency = Str("USD")

\* extractReceiptData has returned its response
Done(r) == req[r].pc = "done"

\* the model output is tax-exclusive: said so, or nothing said and the
\* currency not one of the tax-inclusive ones
RawTaxExclusive(data) ==
    \/ RawTaxInclusive(data) = Bool(FALSE)
    \/ /\ RawTaxInclusive(data) = Undef
       /\ data.currency \notin {Str("EUR"), Str("GBP"), Str("CHF"), Str("AUD"), Str("NZD")}

\* model output with a vendor name, a date, a supported currency, a clear
\* image, items, and tax-exclusive amounts with subtotal + tax within 0.01
\* of total
HappyOutput(data) ==
    /\ IsStr(data.vendor_name) /\ data.vendor_name.v # ""
    /\ data.date \in {Str("2023-09-09"), Str("2023-09-10T12:00:00Z")}
    /\ data.currency \in SupportedCodes
    /\ ~Unclear(data)
    /\ IsArr(data.receipt_items) /\ data.receipt_items.v # <<>>
    /\ RawTaxExclusive(data)
    /\ AmountsPresent(data)
    /\ data.subtotal.v >= 0 /\ data.tax.v >= 0 /\ data.total.v >= 0
    /\ Distance(data.subtotal.v + data.tax.v, data.total.v) <= 10

\* success, confidence 0.95 and no warning at all
CleanSuccess(r) ==
    /\ req[r].returned.status = "success"
    /\ req[r].returned.confidence_score = Num(950)
    /\ req[r].allWarnings = <<>>

Saved(r) == Done(r) /\ req[r].dbError = ""

Absent(x) == x \in {Undef, Null}

\* the same value, a missing one and a null one counting as the same
SameValue(a, b) == a = b \/ (Absent(a) /\ Absent(b))

\* tax_details that carries nothing
NoDetails(x) == Absent(x) \/ (x.t = "object" /\ Absent(x.v.additional_taxes))

SameItems(a, b) ==
    /\ Len(a) = Len(b)
    /\ \A i \in 1..Len(a) :
         /\ a[i].item_name = b[i].item_name
         /\ a[i].item_cost = b[i].item_cost
         /\ SameValue(a[i].quantity, b[i].quantity)

SameScalars(a, b) ==
    /\ a.status = b.status
    /\ SameValue(a.date, b.date)
    /\ a.currency = b.currency
    /\ a.vendor_name = b.vendor_name
    /\ SameValue(a.subtotal, b.subtotal)
    /\ a.tax = b.tax
    /\ a.total = b.total
    /\ SameValue(a.payment_method, b.payment_method)
    /\ SameValue(a.receipt_number, b.receipt_number)
    /\ SameValue(a.confidence_score, b.confidence_score)
    /\ SameValue(a.image_url, b.image_url)

SameDetails(a, b) == a.tax_details = b.tax_details \/ (NoDetails(a.tax_details) /\ NoDetails(b.tax_details))

SameMetadata(a, b) == SameValue(a.extraction_metadata, b.extraction_metadata)

\* C26: after extractReceiptData has saved an extraction,
\* getExtractionById(extraction_id) returns a record with the value of the
\* extraction response in every extracted field: status, date, currency,
\* vendor_name, the items in order, subtotal, tax, tax_details, total,
\* payment_method, receipt_number, confidence_score, image_url and the
\* extraction metadata with its warnings.
C26_PersistenceRoundTrip ==
    \A r \in Reqs :
      Saved(r) =>
        \A got \in getExtractionById(req[r].extractionId) :
          /\ got # Null
          /\ SameScalars(got.v, req[r].returned)
          /\ SameItems(got.v.receipt_items, req[r].returned.receipt_items)
          /\ SameDetails(got.v, req[r].returned)
          /\ SameMetadata(got.v, req[r].returned)

\* a reader has called getReceiptByExtractionId or getAllReceipts
HasRead == call.pc = "read"

\* the receipts row of this id is in the table
RowPresent(id) == \E row \in receipts : row.id = id

\* C27: saveReceipt is atomic for readers: a reader never gets a receipt
\* whose items have not been inserted yet (every accepted record has at
\* least one item), and a receipt a reader has got is never deleted by the
\* rollback of its save
C27_ReadersSeeOnlyCompleteReceipts ==
    [][ /\ HasRead' =>
             \A saved \in call'.result.v : Len(saved.receipt_items) > 0
        /\ HasRead =>
             \A saved \in call.result.v :
               RowPresent(saved.id) => RowPresent(saved.id)' ]_vars

\* a receipt read from an unclear image, with a vendor name, at least one
\* item and total null
UnreadableTotalRecord(data) ==
    /\ data.is_receipt # Bool(FALSE)
    /\ Unclear(data)
    /\ Truthy(data.vendor_name)
    /\ IsArr(data.receipt_items) /\ data.receipt_items.v # <<>>
    /\ data.total = Null

\* the gateway outcomes whose text decodes to such a record
UnreadableTotalOutcomes ==
    { outcome \in Outcomes(env) :
        /\ outcome.kind = "content"
        /\ Decodable(outcome.content)
        /\ UnreadableTotalRecord(Payload(outcome.content)[1].v) }

\* the orchestrator has returned data for such a record
UnreadableTotal(r) ==
    /\ req[r].decoded # Undef
    /\ UnreadableTotalRecord(req[r].decoded.v)

\* C28: a receipt read from an unclear image with a vendor name, at least
\* one item and total null is no error and is not retried: whenever the
\* gateway answers with it the attempt ends with data and not with an
\* error, no gateway call follows, its confidence is 0.50,
\* its total becomes 0, a save is attempted, and extractReceiptData returns
\* a response with status 'failed'.
C28_UnreadableTotalIsFailedResponse ==
    \A r \in Reqs :
      /\ req[r].pc = "gateway" =>
            \A outcome \in UnreadableTotalOutcomes :
              AttemptResult(outcome).ok
      /\ UnreadableTotal(r) =>
            /\ req[r].pc # "error" /\ req[r].thrown = Undef
            /\ req[r].calls = req[r].failures + 1
            /\ req[r].extractedData.confidence_score = Num(500)
            /\ req[r].extractedData.total = Num(0)
            /\ req[r].status = "failed"
            /\ \E i \in 1..Len(req[r].events) : req[r].events[i] = "db_start"
            /\ Done(r) => req[r].returned.status = "failed"

\* extractReceiptData has returned for such a receipt, on the first attempt
C28_Witness ==
    \E r \in Reqs :
      /\ UnreadableTotal(r)
      /\ Done(r)
      /\ req[r].calls = 1
      /\ req[r].returned.status = "failed"
      /\ req[r].returned.total = Num(0)

\* the response has been assembled from the orchestrator's data
Assembled(r) == req[r].extractedData # Undef

\* the orchestrator's data is of a clear image and tax-exclusive, with a
\* vendor name, items, subtotal, tax and total that are not 0, and
\* subtotal + tax more than 0.01 away from total
ExclusiveMismatch(data) ==
    /\ ~Unclear(data)
    /\ ~MarkedInclusive(data)
    /\ Truthy(data.vendor_name)
    /\ data.receipt_items.v # <<>>
    /\ AmountsPresent(data)
    /\ data.subtotal.v # 0 /\ data.tax.v # 0 /\ data.total.v # 0
    /\ Distance(data.subtotal.v + data.tax.v, data.total.v) > 10

\* how many warnings of the list start with this text
CountOf(warnings, text) ==
    Cardinality({ i \in 1..Len(warnings) : warnings[i][1] = text })

\* C29: the warning list the classifier gets is the list of generateWarnings
\* followed by the list of validateExtractionConsistency, nothing removed;
\* so for a clear-image tax-exclusive record with vendor, items, subtotal,
\* tax and total not 0 and subtotal + tax more than 0.01 away from total it
\* has at least three warnings (the orchestrator's mathematical warning, its
\* low-confidence warning for 0.80, the validator's mathematical warning)
\* and the status extractReceiptData returns is 'partial'.
C29_MergedWarningsMakePartial ==
    \A r \in Reqs :
      Assembled(r) =>
        /\ req[r].allWarnings
             = generateWarnings(req[r].extractedData)
                 \o validateExtractionConsistency(req[r].extractedData)
        /\ ExclusiveMismatch(req[r].extractedData) =>
             /\ req[r].extractedData.confidence_score = Num(800)
             /\ Len(req[r].allWarnings) >= 3
             /\ CountOf(req[r].allWarnings,
                        "Mathematical validation: subtotal + tax does not equal total") = 1
             /\ CountOf(req[r].allWarnings, "Low confidence in extraction accuracy") = 1
             /\ MathWarningCount(req[r].allWarnings) = 1
             /\ req[r].status = "partial"
             /\ Done(r) => req[r].returned.status = "partial"

\* the grocery receipt with total 20.006 for 6.49 + 0.52 is returned as
\* 'partial' with exactly the three warnings
C29_Witness ==
    \E r \in Reqs :
      /\ Done(r)
      /\ ExclusiveMismatch(req[r].extractedData)
      /\ Len(req[r].allWarnings) = 3
      /\ req[r].returned.status = "partial"

\* saveImage has returned a url to this request
ImageSaved(r) == req[r].imageSave = "ok"

\* two requests that supply the same customId and a file name of the same
\* extension
SameKey(r1, r2) ==
    /\ r1 # r2
    /\ req[r1].extractOptions # Undef /\ req[r2].extractOptions # Undef
    /\ req[r1].extractOptions.customId # Undef
    /\ req[r1].extractOptions.customId = req[r2].extractOptions.customId
    /\ storageGetFileExtension(req[r1].file.originalname)
         = storageGetFileExtension(req[r2].file.originalname)

\* the url is one of the local upload directory
IsLocalUrl(url) == url.v[1] = "/storage/images/"

\* the request whose image is the object at this url
StoredImage(url) ==
    IF IsLocalUrl(url) THEN uploads[Tail(url.v)] ELSE bucket[Tail(url.v)]

\* both have the same image url, it is the url they return, and the object
\* at that url is the image of one of the two
OneObjectForBoth(r1, r2) ==
    /\ req[r1].imageUrl = req[r2].imageUrl
    /\ StoredImage(req[r1].imageUrl) \in {r1, r2}
    /\ (Done(r1) /\ Done(r2)) =>
          /\ req[r1].returned.image_url = req[r2].returned.image_url
          /\ req[r1].returned.image_url = req[r1].imageUrl

\* C30 as stated: two requests with the same customId and the same
\* extension whose image saves have completed have the same image_url, and
\* the object at that url is the image of one of them.
C30_SameKeySameUrl ==
    \A r1, r2 \in Reqs :
      (SameKey(r1, r2) /\ ImageSaved(r1) /\ ImageSaved(r2)) => OneObjectForBoth(r1, r2)

\* C30, amended: the image store names an object by extraction id and
\* extension only and an upload replaces the object of that name: the
\* object at the url a save returns is, when the save returns, the image of
\* that save; and two requests with the same customId and the same
\* extension whose saves both went to the same store (both uploaded, or
\* both written locally) have the same image_url, the object at it being
\* the image of whichever save finished last.
C30_SameStoreLastSaveWins ==
    [][ \A r1 \in Reqs :
          /\ (~ImageSaved(r1) /\ ImageSaved(r1)') =>
                StoredImage(req[r1].imageUrl)' = r1
          /\ \A r2 \in Reqs :
               (SameKey(r1, r2) /\ ImageSaved(r1) /\ ImageSaved(r2)
                  /\ IsLocalUrl(req[r1].imageUrl) = IsLocalUrl(req[r2].imageUrl))'
                 => OneObjectForBoth(r1, r2)' ]_vars

\* both requests have returned the same image_url and the object there is
\* the image of the second: the response of the first refers to an image it
\* was not extracted from
C30_Witness ==
    /\ SameKey("r1", "r2")
    /\ Done("r1") /\ Done("r2")
    /\ req["r1"].returned.image_url = req["r2"].returned.image_url
    /\ req["r1"].returned.image_url # Undef
    /\ StoredImage(req["r1"].imageUrl) = "r2"

====
